---- MODULE Spec2Model ----
(***************************************************************************)
(* Lifecycle model of the vm-manager hypervisor backends.                  *)
(*                                                                         *)
(* One handle is modelled, of the backend the router is configured with    *)
(* (QEMU: one VM name under data_dir; Noop), together with the part of the *)
(* host it acts on: the per-VM work directory, the QEMU process and its    *)
(* launcher, and the QMP socket.                                           *)
(* Backend operations that suspend (start, stop, destroy) are split at     *)
(* their await points, so the host can move between two steps of one       *)
(* operation; operations on the handle are serialized by the caller, so    *)
(* at most one is in progress (pc).                                        *)
(*                                                                         *)
(* Host assumptions: pids are not recycled; nothing but the backend and    *)
(* the QEMU process touches work_dir; a launcher started while a QEMU      *)
(* process holds the overlay of work_dir fails (the image is locked). A    *)
(* process whose work_dir was removed under it is an orphan: it holds no   *)
(* file of a work_dir created later.                                       *)
(***************************************************************************)
EXTENDS Naturals, Sequences, FiniteSets, TLC

VARIABLES
    backend,     \* the backend the router dispatches to: "Qemu" or "Noop"
    vm,          \* the QEMU VmHandle the caller holds: [held, seed_iso_path]
    dirExists,   \* work_dir exists on disk
    files,       \* names of the files present in work_dir
    pidContent,  \* content of work_dir/qemu.pid while the file is present
    proc,        \* the VM's QEMU process: phase / QMP run state, "none" when gone
    dying,       \* an exit the process cannot refuse is under way: "quit", "kill"
    launcher,    \* exit status of the launcher that start waits for, once it has one
    orphan,      \* a QEMU process of this VM lives on after its work_dir was removed
    op,          \* the operation in progress on the QEMU handle
    pc,          \* the position inside that operation
    timeout,     \* the timeout argument of the stop in progress (ms)
    elapsed,     \* start.elapsed() of the poll loop of the stop in progress (ms)
    sent,        \* QMP commands acknowledged and signals sent by the operation
    qmpSeen,     \* outcome of the last QMP exchange of the operation
    rmErr,       \* the Result of remove_dir_all that destroy discards
    result,      \* what the last operation returned; none while one is in progress
    recovering,  \* the destroy in progress, or just returned, followed a start
                 \* that failed or was cancelled after the launcher had exited 0
    noopHeld,    \* the caller holds a Noop VmHandle
    noopDir,     \* the Noop handle's work_dir exists
    call,        \* the last call of a helper or producer: its inputs and what it did
    vms          \* two QEMU VMs of distinct names on one host

vars == <<backend, call, vms, vm, dirExists, files, pidContent, proc, dying, launcher, orphan, op, pc,
          timeout, elapsed, sent, qmpSeen, rmErr, result, recovering, noopHeld,
          noopDir>>

fsVars == <<dirExists, files, pidContent>>
procVars == <<proc, dying, launcher, orphan>>
noopVars == <<noopHeld, noopDir>>
stopVars == <<timeout, elapsed>>

----------------------------------------------------------------------------
(* Bounds and program constants *)

\* Largest stop timeout the caller passes, in poll intervals.
MaxTimeoutTicks == 2

PollMs == 500
DestroyTimeoutMs == 5000

Timeouts == {t * PollMs : t \in 0..MaxTimeoutTicks}

----------------------------------------------------------------------------
(* Names *)

Overlay == "overlay.qcow2"
SeedIso == "seed.iso"
QmpSock == "qmp.sock"
ConsoleSock == "console.sock"
PidFile == "qemu.pid"
FileNames == {Overlay, SeedIso, QmpSock, ConsoleSock, PidFile}

None == "None"
QemuPid == "qpid"
StalePid == "stale"

\* Phases of a process still being launched, and QMP run states of a daemon.
Launching == {"forked", "bound"}
RunStates == {"running", "paused", "suspended", "guest-panicked"}

Idle == op = "none" /\ pc = "idle"

\* The router dispatches an idle caller's next call to the QEMU backend.
Qemu == backend = "Qemu" /\ Idle

\* The router dispatches an idle caller's next call to the Noop backend.
Noop == backend = "Noop" /\ Idle

Returned(name, val) == [op |-> name, val |-> val]

NoResult == Returned("none", "none")

\* The results of a start that got past the launcher (the daemon was up) and
\* then failed at, or was cancelled during, the QMP verification.
StartLeftOrphan == {"cancelled_qmp", "QmpConnectTimeout", "QmpProtocol"}

Has(seq, x) == \E i \in 1..Len(seq) : seq[i] = x

----------------------------------------------------------------------------
(* Helpers of QemuBackend *)

\* read_pid: the pidfile's content parsed as u32, None when the file is
\* missing or does not parse (QEMU creates the file before it writes the pid).
read_pid ==
    IF dirExists /\ PidFile \in files /\ pidContent # "empty"
    THEN pidContent
    ELSE None

\* pid_alive: kill(pid, 0) == 0. A process that was sent SIGKILL stays in the
\* process table until the signal has taken effect; a stale pidfile names
\* the pid of a process that is gone.
pid_alive(pid) == pid = QemuPid /\ proc # "none"

----------------------------------------------------------------------------
(* QMP client *)

\* The outcomes a QmpClient::connect followed by one command can have.
QmpOutcomes ==
    IF dirExists /\ QmpSock \in files /\ proc \in RunStates
    THEN {"ok", "connect_timeout", "protocol_error"}
    ELSE {"connect_timeout"}

QmpError(o) ==
    IF o = "connect_timeout" THEN "QmpConnectTimeout" ELSE "QmpProtocol"

\* query-status: the status string of the reply.
query_status == proc

----------------------------------------------------------------------------
\* No helper call has been made; no pair of VMs is followed.
NoCall == [fn |-> "none"]
NoVms == <<>>

\* The state after construction of everything but the backend choice.
Fresh ==
    /\ vm = [held |-> FALSE, seed_iso_path |-> FALSE]
    /\ dirExists = FALSE
    /\ files = {}
    /\ pidContent = "empty"
    /\ proc = "none"
    /\ dying = "no"
    /\ launcher = "none"
    /\ orphan = FALSE
    /\ op = "none"
    /\ pc = "idle"
    /\ timeout = 0
    /\ elapsed = 0
    /\ sent = <<>>
    /\ qmpSeen = "none"
    /\ rmErr = FALSE
    /\ result = NoResult
    /\ recovering = FALSE
    /\ noopHeld = FALSE
    /\ noopDir = FALSE

Init ==
    /\ backend \in {"Qemu", "Noop"}
    /\ Fresh
    /\ call = NoCall
    /\ vms = NoVms

\* An operation returns to the caller.
Return(name, val) ==
    /\ op' = "none"
    /\ pc' = "idle"
    /\ result' = Returned(name, val)

\* An operation that sends nothing and waits for nothing.
Quiet == sent' = <<>> /\ recovering' = FALSE /\ UNCHANGED stopVars

----------------------------------------------------------------------------
(* QemuBackend::prepare *)

\* The steps of prepare, each of which can fail: create_dir_all, create_overlay,
\* create_nocloud_iso_raw (only with cloud_init). A failure returns the error
\* with `?` and leaves what the earlier steps created.
PrepareOutcomes(cloud_init) ==
    {"Io", "OverlayFailed", "Ok"} \cup (IF cloud_init THEN {"IsoWriteFailed"} ELSE {})

\* Variant of Prepare: a failure after create_dir_all removes work_dir again.
PrepareRollsBack ==
    /\ Qemu
    /\ \E cloud_init \in BOOLEAN : \E o \in PrepareOutcomes(cloud_init) :
        /\ dirExists' = (IF o = "Ok" THEN TRUE ELSE IF o = "Io" THEN dirExists ELSE FALSE)
        /\ files' = IF o \in {"OverlayFailed", "IsoWriteFailed"} THEN {}
                    ELSE files
                          \cup (IF o = "Ok" THEN {Overlay} ELSE {})
                          \cup (IF o = "Ok" /\ cloud_init THEN {SeedIso} ELSE {})
        /\ vm' = IF o = "Ok"
                 THEN [held |-> TRUE, seed_iso_path |-> cloud_init]
                 ELSE vm
        /\ Return("prepare", o)
    /\ pidContent' = IF PidFile \in files' THEN pidContent ELSE "empty"
    /\ qmpSeen' = "none"
    /\ Quiet
    /\ UNCHANGED <<backend, call, vms, procVars, rmErr, noopVars>>

Prepare ==
    /\ Qemu
    /\ \E cloud_init \in BOOLEAN : \E o \in PrepareOutcomes(cloud_init) :
        /\ dirExists' = (dirExists \/ o # "Io")
        /\ files' = files
                     \cup (IF o \in {"IsoWriteFailed", "Ok"} THEN {Overlay} ELSE {})
                     \cup (IF o = "Ok" /\ cloud_init THEN {SeedIso} ELSE {})
        /\ vm' = IF o = "Ok"
                 THEN [held |-> TRUE, seed_iso_path |-> cloud_init]
                 ELSE vm
        /\ Return("prepare", o)
    /\ qmpSeen' = "none"
    /\ Quiet
    /\ UNCHANGED <<backend, call, vms, pidContent, procVars, rmErr, noopVars>>

----------------------------------------------------------------------------
(* QemuBackend::start *)

\* Command::new(qemu_binary).args(..).status(): the launcher is spawned, or
\* the spawn itself fails. A launcher started while a QEMU process of this VM
\* is alive exits non-zero without touching work_dir.
StartSpawn ==
    /\ Qemu
    /\ vm.held
    /\ \/ /\ Return("start", "QemuSpawnFailed")
          /\ UNCHANGED procVars
       \/ /\ op' = "start"
          /\ pc' = "start_wait"
          /\ IF proc = "none"
             THEN proc' = "forked" /\ launcher' = "none" /\ dying' = "no"
             ELSE launcher' = "exit1" /\ UNCHANGED <<proc, dying>>
          /\ result' = NoResult
          /\ UNCHANGED orphan
    /\ qmpSeen' = "none"
    /\ Quiet
    /\ UNCHANGED <<backend, call, vms, vm, fsVars, rmErr, noopVars>>

\* Variant of StartAwait: the exit status of the launcher is not looked at.
StartAwaitAnyStatus ==
    /\ op = "start" /\ pc = "start_wait"
    /\ launcher \in {"exit0", "exit1"}
    /\ pc' = "start_qmp" /\ UNCHANGED <<op, result>>
    /\ launcher' = "none"
    /\ UNCHANGED <<backend, call, vms, vm, fsVars, proc, dying, orphan, stopVars, sent, qmpSeen, rmErr, recovering,
                   noopVars>>

\* .status().await has the launcher's exit status: non-zero is QemuSpawnFailed,
\* zero goes on to the QMP verification.
StartAwait ==
    /\ op = "start" /\ pc = "start_wait"
    /\ launcher \in {"exit0", "exit1"}
    /\ IF launcher = "exit0"
       THEN pc' = "start_qmp" /\ UNCHANGED <<op, result>>
       ELSE Return("start", "QemuSpawnFailed")
    /\ launcher' = "none"
    /\ UNCHANGED <<backend, call, vms, vm, fsVars, proc, dying, orphan, stopVars, sent, qmpSeen, rmErr, recovering,
                   noopVars>>

\* Variant of StartQmp: the QMP verification is best-effort, as in stop.
StartQmpUnchecked ==
    /\ op = "start" /\ pc = "start_qmp"
    /\ \E o \in QmpOutcomes :
        /\ qmpSeen' = o
        /\ sent' = IF o = "ok" THEN Append(sent, "query-status") ELSE sent
        /\ Return("start", "Ok")
    /\ UNCHANGED <<backend, call, vms, vm, fsVars, procVars, stopVars, rmErr, recovering,
                   noopVars>>

\* Variant of StartQmp: a start whose QMP check fails kills the daemon.
StartQmpKillsOnFailure ==
    /\ op = "start" /\ pc = "start_qmp"
    /\ \E o \in QmpOutcomes :
        /\ qmpSeen' = o
        /\ sent' = IF o = "ok" THEN Append(sent, "query-status")
                   ELSE Append(sent, "SIGKILL")
        /\ dying' = IF o # "ok" /\ proc # "none" THEN "kill" ELSE dying
        /\ Return("start", IF o = "ok" THEN "Ok" ELSE QmpError(o))
    /\ UNCHANGED <<backend, call, vms, vm, fsVars, proc, launcher, orphan, stopVars, rmErr,
                   recovering, noopVars>>

\* QmpClient::connect(qmp_sock, 10 s) and query_status, both with `?`.
StartQmp ==
    /\ op = "start" /\ pc = "start_qmp"
    /\ \E o \in QmpOutcomes :
        /\ qmpSeen' = o
        /\ sent' = IF o = "ok" THEN Append(sent, "query-status") ELSE sent
        /\ Return("start", IF o = "ok" THEN "Ok" ELSE QmpError(o))
    /\ UNCHANGED <<backend, call, vms, vm, fsVars, procVars, stopVars, rmErr, recovering,
                   noopVars>>

\* The caller drops the future of start at one of its await points. The
\* launcher and the daemon it forks are not tied to the future.
StartCancel ==
    /\ op = "start" /\ pc \in {"start_wait", "start_qmp"}
    /\ Return("start", IF pc = "start_wait" THEN "cancelled_spawn" ELSE "cancelled_qmp")
    /\ launcher' = "none"
    /\ UNCHANGED <<backend, call, vms, vm, fsVars, proc, dying, orphan, stopVars, sent, qmpSeen, rmErr, recovering,
                   noopVars>>

----------------------------------------------------------------------------
(* The host: the QEMU process *)

\* start is waiting for the launcher of the process being launched.
Waited == op = "start" /\ pc = "start_wait" /\ launcher = "none"

\* QEMU binds -qmp and -serial and creates the -pidfile in work_dir.
LaunchBind ==
    /\ proc = "forked"
    /\ dirExists /\ Overlay \in files
    /\ proc' = "bound"
    /\ files' = files \cup {QmpSock, ConsoleSock, PidFile}
    /\ pidContent' = "empty"
    /\ UNCHANGED <<backend, call, vms, vm, dirExists, dying, launcher, orphan, op, pc, stopVars,
                   sent, qmpSeen, rmErr, result, recovering,
                   noopVars>>

\* -daemonize: QEMU writes its pid and the launcher exits 0.
LaunchDaemonize ==
    /\ proc = "bound"
    /\ proc' = "running"
    /\ pidContent' = IF dirExists /\ PidFile \in files THEN QemuPid ELSE pidContent
    /\ launcher' = IF Waited THEN "exit0" ELSE launcher
    /\ UNCHANGED <<backend, call, vms, vm, dirExists, files, dying, orphan, op, pc, stopVars, sent,
                   qmpSeen, rmErr, result, recovering,
                   noopVars>>

\* The process ends: a launch that fails, a guest that powers off, a honoured
\* powerdown, SIGTERM or quit, a crash, or SIGKILL taking effect. Only an
\* exit QEMU handles itself may unlink its pidfile and sockets.
ProcExit ==
    /\ proc # "none"
    /\ \E unlinks \in (IF dying = "kill" \/ proc = "forked" THEN {FALSE} ELSE BOOLEAN) :
        /\ files' = IF unlinks THEN files \ {QmpSock, ConsoleSock, PidFile} ELSE files
        /\ pidContent' = IF PidFile \in files'
                         THEN (IF pidContent = QemuPid THEN StalePid ELSE pidContent)
                         ELSE "empty"
    /\ proc' = "none"
    /\ dying' = "no"
    /\ launcher' = IF Waited /\ proc \in Launching THEN "exit1" ELSE launcher
    /\ UNCHANGED <<backend, call, vms, vm, dirExists, orphan, op, pc, stopVars, sent, qmpSeen, rmErr,
                   result, recovering,
                   noopVars>>

\* An orphan ends, by itself or by a SIGKILL sent before it was orphaned.
OrphanExit ==
    /\ orphan
    /\ orphan' = FALSE
    /\ UNCHANGED <<backend, call, vms, vm, fsVars, proc, dying, launcher, op, pc, stopVars, sent,
                   qmpSeen, rmErr, result, recovering,
                   noopVars>>

\* The guest changes the run state by itself: suspend to RAM, wake-up, panic.
GuestRunState ==
    /\ \/ proc = "running" /\ proc' \in {"suspended", "guest-panicked"}
       \/ proc = "suspended" /\ proc' = "running"
    /\ UNCHANGED <<backend, call, vms, vm, fsVars, dying, launcher, orphan, op, pc, stopVars, sent,
                   qmpSeen, rmErr, result, recovering,
                   noopVars>>

----------------------------------------------------------------------------
(* QemuBackend::stop *)

\* qmp_sock.exists()
QmpSockExists == dirExists /\ QmpSock \in files

\* stop returns Ok(()): to the caller, or into destroy, which called it.
StopReturn ==
    /\ IF op = "destroy"
       THEN pc' = "destroy_quit" /\ UNCHANGED <<op, result>>
       ELSE Return("stop", "Ok")
    /\ timeout' = 0
    /\ elapsed' = 0

\* Variant of StopAcpi: the QMP connect and system_powerdown are written with
\* `?`, so a QMP failure is returned by stop.
StopAcpiPropagates(name, t) ==
    /\ Qemu
    /\ vm.held
    /\ timeout' = t
    /\ elapsed' = 0
    /\ rmErr' = FALSE
    /\ IF QmpSockExists
       THEN \E o \in QmpOutcomes :
               /\ qmpSeen' = o
               /\ sent' = IF o = "ok" THEN <<"system_powerdown">> ELSE <<>>
               /\ IF o = "ok"
                  THEN op' = name /\ pc' = "stop_poll" /\ result' = NoResult
                  ELSE Return(name, QmpError(o))
       ELSE /\ qmpSeen' = "none" /\ sent' = <<>>
            /\ op' = name /\ pc' = "stop_poll" /\ result' = NoResult
    /\ recovering' = (name = "destroy" /\ result.op = "start"
                        /\ result.val \in StartLeftOrphan)
    /\ UNCHANGED <<backend, call, vms, vm, fsVars, procVars, noopVars>>

\* The ACPI attempt: when qmp.sock exists, connect (2 s) and system_powerdown,
\* every failure ignored. Then the poll loop is entered with start = now.
StopAcpi(name, t) ==
    /\ Qemu
    /\ vm.held
    /\ op' = name
    /\ pc' = "stop_poll"
    /\ timeout' = t
    /\ elapsed' = 0
    /\ IF QmpSockExists
       THEN \E o \in QmpOutcomes :
               /\ qmpSeen' = o
               /\ sent' = IF o = "ok" THEN <<"system_powerdown">> ELSE <<>>
       ELSE qmpSeen' = "none" /\ sent' = <<>>
    /\ rmErr' = FALSE
    /\ result' = NoResult
    /\ recovering' = (name = "destroy" /\ result.op = "start"
                        /\ result.val \in StartLeftOrphan)
    /\ UNCHANGED <<backend, call, vms, vm, fsVars, procVars, noopVars>>

Stop == \E t \in Timeouts : StopAcpi("stop", t)

\* Variant of StopPoll: the else branch of `if let Some(pid)` is missing, so
\* an unreadable pidfile is polled until the timeout like a live pid.
StopPollWaitsForPidfile ==
    /\ op \in {"stop", "destroy"} /\ pc = "stop_poll"
    /\ LET pid == read_pid IN
       IF pid # None /\ ~pid_alive(pid)
       THEN StopReturn
       ELSE IF elapsed >= timeout
            THEN pc' = "stop_term" /\ UNCHANGED <<op, result, stopVars>>
            ELSE /\ pc' = "stop_poll"
                 /\ elapsed' = elapsed + PollMs
                 /\ UNCHANGED <<op, result, timeout>>
    /\ UNCHANGED <<backend, call, vms, vm, fsVars, procVars, sent, qmpSeen, rmErr, recovering,
                   noopVars>>

\* Variant of StopPoll: the loop has no break, a live pid is polled for ever.
StopPollNoTimeout ==
    /\ op \in {"stop", "destroy"} /\ pc = "stop_poll"
    /\ LET pid == read_pid IN
       IF pid = None \/ ~pid_alive(pid)
       THEN StopReturn
       ELSE /\ pc' = "stop_poll"
            /\ elapsed' = IF elapsed >= timeout THEN elapsed ELSE elapsed + PollMs
            /\ UNCHANGED <<op, result, timeout>>
    /\ UNCHANGED <<backend, call, vms, vm, fsVars, procVars, sent, qmpSeen, rmErr, recovering,
                   noopVars>>

\* Variant of StopPoll: the timeout is tested before the pidfile is read.
StopPollTimeoutFirst ==
    /\ op \in {"stop", "destroy"} /\ pc = "stop_poll"
    /\ LET pid == read_pid IN
       IF elapsed >= timeout
       THEN pc' = "stop_term" /\ UNCHANGED <<op, result, stopVars>>
       ELSE IF pid = None \/ ~pid_alive(pid)
            THEN StopReturn
            ELSE /\ pc' = "stop_poll"
                 /\ elapsed' = elapsed + PollMs
                 /\ UNCHANGED <<op, result, timeout>>
    /\ UNCHANGED <<backend, call, vms, vm, fsVars, procVars, sent, qmpSeen, rmErr, recovering,
                   noopVars>>

\* One iteration of the poll loop: return when the pidfile is unreadable or
\* its pid is gone, break when the timeout is reached, else sleep 500 ms (the
\* sleep may overrun).
StopPoll ==
    /\ op \in {"stop", "destroy"} /\ pc = "stop_poll"
    /\ LET pid == read_pid IN
       IF pid = None \/ ~pid_alive(pid)
       THEN StopReturn
       ELSE IF elapsed >= timeout
            THEN pc' = "stop_term" /\ UNCHANGED <<op, result, stopVars>>
            ELSE /\ pc' = "stop_poll"
                 /\ \E late \in BOOLEAN :
                       elapsed' = IF late /\ timeout > elapsed + PollMs
                                  THEN timeout
                                  ELSE elapsed + PollMs
                 /\ UNCHANGED <<op, result, timeout>>
    /\ UNCHANGED <<backend, call, vms, vm, fsVars, procVars, sent, qmpSeen, rmErr, recovering,
                   noopVars>>

\* Variant of StopTerm: a live pid gets SIGKILL at once.
StopTermKills ==
    /\ op \in {"stop", "destroy"} /\ pc = "stop_term"
    /\ LET pid == read_pid IN
       IF pid # None /\ pid_alive(pid)
       THEN sent' = Append(sent, "SIGKILL") /\ dying' = "kill"
       ELSE UNCHANGED <<sent, dying>>
    /\ StopReturn
    /\ UNCHANGED <<backend, call, vms, vm, fsVars, proc, launcher, orphan, qmpSeen, rmErr, recovering,
                   noopVars>>

\* SIGTERM fallback: the pidfile is read again; a live pid gets SIGTERM and
\* stop sleeps 3 s; a pid found dead falls through the SIGKILL test at once.
StopTerm ==
    /\ op \in {"stop", "destroy"} /\ pc = "stop_term"
    /\ LET pid == read_pid IN
       IF pid # None /\ pid_alive(pid)
       THEN /\ sent' = Append(sent, "SIGTERM")
            /\ pc' = "stop_kill"
            /\ UNCHANGED <<op, result, stopVars>>
       ELSE StopReturn /\ UNCHANGED sent
    /\ UNCHANGED <<backend, call, vms, vm, fsVars, procVars, qmpSeen, rmErr, recovering,
                   noopVars>>

\* After the 3 s: SIGKILL if the pid is still alive; stop returns Ok at once.
StopKill ==
    /\ op \in {"stop", "destroy"} /\ pc = "stop_kill"
    /\ IF pid_alive(QemuPid)
       THEN sent' = Append(sent, "SIGKILL") /\ dying' = "kill"
       ELSE UNCHANGED <<sent, dying>>
    /\ StopReturn
    /\ UNCHANGED <<backend, call, vms, vm, fsVars, proc, launcher, orphan, qmpSeen, rmErr, recovering,
                   noopVars>>

----------------------------------------------------------------------------
(* QemuBackend::destroy *)

\* Variant of DestroyStop: stop is not called.
DestroyWithoutStop ==
    /\ Qemu
    /\ vm.held
    /\ op' = "destroy"
    /\ pc' = "destroy_quit"
    /\ timeout' = 0
    /\ elapsed' = 0
    /\ qmpSeen' = "none" /\ sent' = <<>>
    /\ rmErr' = FALSE
    /\ result' = NoResult
    /\ recovering' = (result.op = "start" /\ result.val \in StartLeftOrphan)
    /\ UNCHANGED <<backend, call, vms, vm, fsVars, procVars, noopVars>>

\* self.stop(&vm, 5 s)
DestroyStop == StopAcpi("destroy", DestroyTimeoutMs)

\* QMP quit when qmp.sock exists, every failure ignored.
DestroyQuit ==
    /\ op = "destroy" /\ pc = "destroy_quit"
    /\ pc' = "destroy_rm"
    /\ IF QmpSockExists
       THEN \E o \in QmpOutcomes :
               /\ qmpSeen' = o
               /\ sent' = IF o = "ok" THEN Append(sent, "quit") ELSE sent
               /\ dying' = IF o = "ok" /\ dying = "no" THEN "quit" ELSE dying
       ELSE UNCHANGED <<qmpSeen, sent, dying>>
    /\ UNCHANGED <<backend, call, vms, vm, fsVars, proc, launcher, orphan, op, stopVars, rmErr, result,
                   recovering,
                   noopVars>>

\* work_dir is removed: a process that had its sockets and pidfile there
\* lives on as an orphan; one that has not bound them yet will find no
\* work_dir to bind them in.
Orphaned ==
    IF proc \in {"bound"} \cup RunStates
    THEN proc' = "none" /\ dying' = "no" /\ orphan' = TRUE /\ UNCHANGED launcher
    ELSE UNCHANGED procVars

\* Variant of DestroyRemove: remove_dir_all is written with `?`, so destroy
\* returns the I/O error of a removal that fails.
DestroyRemovePropagates ==
    /\ op = "destroy" /\ pc = "destroy_rm"
    /\ \/ /\ dirExists
          /\ dirExists' = FALSE
          /\ files' = {}
          /\ rmErr' = FALSE
          /\ Orphaned
          /\ Return("destroy", "Ok")
       \/ /\ dirExists
          /\ \E kept \in SUBSET files : files' = kept
          /\ rmErr' = TRUE
          /\ UNCHANGED <<dirExists, procVars>>
          /\ Return("destroy", "Io")
       \/ /\ ~dirExists
          /\ rmErr' = TRUE
          /\ UNCHANGED <<dirExists, files, procVars>>
          /\ Return("destroy", "Io")
    /\ pidContent' = IF PidFile \in files' THEN pidContent ELSE "empty"
    /\ UNCHANGED <<backend, call, vms, vm, stopVars, sent, qmpSeen, recovering,
                   noopVars>>

\* Variant of DestroyRemove: the entries of work_dir are removed, the
\* directory itself is not, and no error is seen.
DestroyRemoveKeepsDir ==
    /\ op = "destroy" /\ pc = "destroy_rm"
    /\ files' = {}
    /\ pidContent' = "empty"
    /\ rmErr' = FALSE
    /\ Return("destroy", "Ok")
    /\ UNCHANGED <<backend, call, vms, vm, dirExists, procVars, stopVars, sent, qmpSeen, recovering,
                   noopVars>>

\* let _ = remove_dir_all(work_dir): the directory and all it holds are
\* removed, or the removal fails part-way (or at once, when there is no
\* directory) and the error is dropped. destroy returns Ok.
DestroyRemove ==
    /\ op = "destroy" /\ pc = "destroy_rm"
    /\ \/ /\ dirExists
          /\ dirExists' = FALSE
          /\ files' = {}
          /\ rmErr' = FALSE
          /\ Orphaned
       \/ /\ dirExists
          /\ \E kept \in SUBSET files : files' = kept
          /\ rmErr' = TRUE
          /\ UNCHANGED <<dirExists, procVars>>
       \/ /\ ~dirExists
          /\ rmErr' = TRUE
          /\ UNCHANGED <<dirExists, files, procVars>>
    /\ pidContent' = IF PidFile \in files' THEN pidContent ELSE "empty"
    /\ Return("destroy", "Ok")
    /\ UNCHANGED <<backend, call, vms, vm, stopVars, sent, qmpSeen, recovering,
                   noopVars>>

----------------------------------------------------------------------------
(* QemuBackend::suspend, resume *)

\* QMP stop pauses a running guest; QMP cont resumes a paused one.
QmpStop(rs) == IF rs = "running" THEN "paused" ELSE rs
QmpCont(rs) == IF rs = "paused" THEN "running" ELSE rs

\* Variant of QmpCommand: the QMP failure is dropped with `let _ =`, the
\* operation returns Ok.
QmpCommandBestEffort(name, cmd, o) ==
    /\ Qemu
    /\ vm.held
    /\ qmpSeen' = o
    /\ recovering' = FALSE
    /\ sent' = IF o = "ok" THEN <<cmd>> ELSE <<>>
    /\ proc' = IF o # "ok" THEN proc
               ELSE IF cmd = "stop" THEN QmpStop(proc) ELSE QmpCont(proc)
    /\ Return(name, "Ok")
    /\ UNCHANGED <<backend, call, vms, vm, fsVars, dying, launcher, orphan, stopVars, rmErr, noopVars>>

\* connect (5 s) and one command, both with `?`.
QmpCommand(name, cmd, o) ==
    /\ Qemu
    /\ vm.held
    /\ qmpSeen' = o
    /\ recovering' = FALSE
    /\ sent' = IF o = "ok" THEN <<cmd>> ELSE <<>>
    /\ proc' = IF o # "ok" THEN proc
               ELSE IF cmd = "stop" THEN QmpStop(proc) ELSE QmpCont(proc)
    /\ Return(name, IF o = "ok" THEN "Ok" ELSE QmpError(o))
    /\ UNCHANGED <<backend, call, vms, vm, fsVars, dying, launcher, orphan, stopVars, rmErr, noopVars>>

Suspend == \E o \in QmpOutcomes : QmpCommand("suspend", "stop", o)

Resume == \E o \in QmpOutcomes : QmpCommand("resume", "cont", o)

----------------------------------------------------------------------------
(* QemuBackend::state, guest_ip, console_endpoint *)

\* Variant of state: a paused or suspended guest counts as Running.
statePausedRuns(o) ==
    LET pid == read_pid IN
    IF pid # None /\ pid_alive(pid)
    THEN "Running"
    ELSE IF dirExists THEN "Stopped" ELSE "Destroyed"

\* Variant of state: the work_dir test is left out, a VM without a live pid
\* is always Stopped.
stateNoDestroyed(o) ==
    LET pid == read_pid IN
    IF pid # None /\ pid_alive(pid)
    THEN IF o = "ok"
         THEN CASE query_status = "running" -> "Running"
                [] query_status \in {"paused", "suspended"} -> "Stopped"
                [] OTHER -> "Running"
         ELSE "Running"
    ELSE "Stopped"

\* Variant of state: a work_dir that never held a pidfile is reported
\* Prepared.
statePreparedWithoutPidfile(o) ==
    LET pid == read_pid IN
    IF pid # None /\ pid_alive(pid)
    THEN IF o = "ok"
         THEN CASE query_status = "running" -> "Running"
                [] query_status \in {"paused", "suspended"} -> "Stopped"
                [] OTHER -> "Running"
         ELSE "Running"
    ELSE IF dirExists
         THEN (IF PidFile \in files THEN "Stopped" ELSE "Prepared")
         ELSE "Destroyed"

\* The VmState that state computes when its QMP exchange ends with outcome o.
state(o) ==
    LET pid == read_pid IN
    IF pid # None /\ pid_alive(pid)
    THEN IF o = "ok"
         THEN CASE query_status = "running" -> "Running"
                [] query_status \in {"paused", "suspended"} -> "Stopped"
                [] OTHER -> "Running"
         ELSE "Running"
    ELSE IF dirExists THEN "Stopped" ELSE "Destroyed"

\* Variant of State: a pidfile found stale is removed on the way.
StateUnlinksStalePidfile ==
    /\ Qemu
    /\ vm.held
    /\ \E o \in (IF read_pid # None /\ pid_alive(read_pid) THEN QmpOutcomes ELSE {"none"}) :
        /\ qmpSeen' = o
        /\ recovering' = FALSE
        /\ sent' = IF o = "ok" THEN <<"query-status">> ELSE <<>>
        /\ Return("state", state(o))
    /\ IF read_pid = StalePid
       THEN files' = files \ {PidFile} /\ pidContent' = "empty" /\ UNCHANGED dirExists
       ELSE UNCHANGED fsVars
    /\ UNCHANGED <<backend, call, vms, vm, procVars, stopVars, rmErr, noopVars>>

\* QMP is tried (connect 2 s, query-status) only for a live pid.
State ==
    /\ Qemu
    /\ vm.held
    /\ \E o \in (IF read_pid # None /\ pid_alive(read_pid) THEN QmpOutcomes ELSE {"none"}) :
        /\ qmpSeen' = o
        /\ recovering' = FALSE
        /\ sent' = IF o = "ok" THEN <<"query-status">> ELSE <<>>
        /\ Return("state", state(o))
    /\ UNCHANGED <<backend, call, vms, vm, fsVars, procVars, stopVars, rmErr, noopVars>>

\* What guest_ip returns: the first usable address of `ip neigh show`, else
\* with a default bridge the third field of the last dnsmasq lease, else
\* IpDiscoveryTimeout. arp: "spawn_failed", "hit", "miss"; lease:
\* "unreadable", "empty", "short" (last line of fewer than 3 fields), "ok".
guest_ip(arp, default_bridge, lease) ==
    IF arp = "spawn_failed" THEN "IpDiscoveryTimeout"
    ELSE IF arp = "hit" THEN "ArpIp"
    ELSE IF default_bridge /\ lease = "ok" THEN "LeaseIp"
    ELSE "IpDiscoveryTimeout"

GuestIp ==
    /\ Qemu
    /\ vm.held
    /\ \E arp \in {"spawn_failed", "hit", "miss"}, default_bridge \in BOOLEAN,
          lease \in {"unreadable", "empty", "short", "ok"} :
        Return("guest_ip", guest_ip(arp, default_bridge, lease))
    /\ qmpSeen' = "none"
    /\ Quiet
    /\ UNCHANGED <<backend, call, vms, vm, fsVars, procVars, rmErr, noopVars>>

\* A QEMU handle's console_socket is always set by prepare.
ConsoleEndpoint ==
    /\ Qemu
    /\ vm.held
    /\ Return("console_endpoint", "UnixSocket")
    /\ qmpSeen' = "none"
    /\ Quiet
    /\ UNCHANGED <<backend, call, vms, vm, fsVars, procVars, rmErr, noopVars>>

----------------------------------------------------------------------------
(* NoopBackend *)

NoopReturn(name, val) == result' = Returned(name, val)

qemuVars == <<backend, call, vms, vm, fsVars, procVars, op, pc, stopVars, sent, qmpSeen,
              recovering>>

\* Values of uuid::Uuid::new_v4().
Uuids == {"6f1c0a52", "a2b7e9d4"}

\* The id of the handle prepare returns; its backend tag is BackendTag::Noop.
noop_id(uuid) == "noop-" \o uuid

\* create_dir_all of a fresh temp directory, with `?`; the handle is
\* returned, shown in the result by its id.
NoopPrepare ==
    /\ Noop
    /\ \E ok \in BOOLEAN, uuid \in Uuids :
        IF ok
        THEN noopHeld' = TRUE /\ noopDir' = TRUE
             /\ NoopReturn("prepare", noop_id(uuid))
        ELSE UNCHANGED noopVars /\ NoopReturn("prepare", "Io")
    /\ UNCHANGED <<qemuVars, rmErr>>

\* start, stop, suspend, resume only log.
NoopLog ==
    /\ Noop
    /\ noopHeld
    /\ \E name \in {"start", "stop", "suspend", "resume"} : NoopReturn(name, "Ok")
    /\ UNCHANGED <<qemuVars, noopVars, rmErr>>

\* let _ = remove_dir_all(work_dir)
NoopDestroy ==
    /\ Noop
    /\ noopHeld
    /\ \E ok \in BOOLEAN :
        /\ noopDir' = (noopDir /\ ~ok)
        /\ rmErr' = (~noopDir \/ ~ok)
    /\ NoopReturn("destroy", "Ok")
    /\ UNCHANGED <<qemuVars, noopHeld>>

noop_state == "Prepared"

NoopState ==
    /\ Noop
    /\ noopHeld
    /\ NoopReturn("state", noop_state)
    /\ UNCHANGED <<qemuVars, noopVars, rmErr>>

NoopGuestIp ==
    /\ Noop
    /\ noopHeld
    /\ NoopReturn("guest_ip", "127.0.0.1")
    /\ UNCHANGED <<qemuVars, noopVars, rmErr>>

NoopConsoleEndpoint ==
    /\ Noop
    /\ noopHeld
    /\ NoopReturn("console_endpoint", "None")
    /\ UNCHANGED <<qemuVars, noopVars, rmErr>>

----------------------------------------------------------------------------
Next ==
    \/ Prepare
    \/ StartSpawn
    \/ StartAwait
    \/ StartQmp
    \/ StartCancel
    \/ Stop
    \/ StopPoll
    \/ StopTerm
    \/ StopKill
    \/ DestroyStop
    \/ DestroyQuit
    \/ DestroyRemove
    \/ Suspend
    \/ Resume
    \/ State
    \/ GuestIp
    \/ ConsoleEndpoint
    \/ LaunchBind
    \/ LaunchDaemonize
    \/ ProcExit
    \/ OrphanExit
    \/ GuestRunState
    \/ NoopPrepare
    \/ NoopLog
    \/ NoopDestroy
    \/ NoopState
    \/ NoopGuestIp
    \/ NoopConsoleEndpoint

Spec == Init /\ [][Next]_vars

\* The steps of a stop in progress. The runtime keeps polling the future of
\* an operation the caller awaits, and each sleep of stop ends.
StopStep == StopPoll \/ StopTerm \/ StopKill

LiveSpec == Spec /\ WF_vars(StopStep)

TypeOK ==
    /\ vm \in [held : BOOLEAN, seed_iso_path : BOOLEAN]
    /\ dirExists \in BOOLEAN
    /\ files \subseteq FileNames
    /\ (~dirExists => files = {})
    /\ pidContent \in {"empty", QemuPid, StalePid}
    /\ proc \in {"none"} \cup Launching \cup RunStates
    /\ dying \in {"no", "quit", "kill"}
    /\ launcher \in {"none", "exit0", "exit1"}
    /\ orphan \in BOOLEAN
    /\ elapsed \in Nat /\ timeout \in Nat
    /\ rmErr \in BOOLEAN

----------------------------------------------------------------------------
(* Helpers and producers, called with inputs drawn from small sets.        *)
(* Paths are valid UTF-8 (they are built from names and configuration      *)
(* text), so display() and to_string_lossy() render them unchanged.        *)

\* Everything but call.
lifeVars == <<backend, vms, vm, fsVars, procVars, op, pc, stopVars, sent, qmpSeen,
              rmErr, result, recovering, noopVars>>

\* Option::None of an optional argument or field.
Absent == "absent"

\* Largest disk_gb a Spec asks for.
MaxDiskGb == 2

DataDir == "/data"
BasePaths == {"/img/base.raw", "/img/base.qcow2"}
VmNames == {"vm1", "vm2"}

\* Path::join of a relative component.
Join(dir, name) == dir \o "/" \o name

\* QemuBackend::work_dir
work_dir(name) == Join(DataDir, name)

----------------------------------------------------------------------------
(* image::detect_format, image::create_overlay *)

\* What `qemu-img info --output=json` can do: not start, exit non-zero, or
\* exit zero with one of these on stdout.
InfoStdouts == {"garbage", "{}", "{format:7}", "{format:raw}", "{format:qcow2}"}
InfoRuns ==
    [status : {"spawn_failed", "nonzero"}, stdout : {""}]
        \cup [status : {"zero"}, stdout : InfoStdouts]

\* serde_json::from_slice succeeds on stdout.
IsJson(stdout) == stdout \in {"{}", "{format:7}", "{format:raw}", "{format:qcow2}"}

\* info.get("format").and_then(as_str)
FormatStr(stdout) ==
    CASE stdout = "{format:raw}" -> "raw"
      [] stdout = "{format:qcow2}" -> "qcow2"
      [] OTHER -> Absent

\* detect_format: Ok with the format, "raw" when .format is missing or is
\* not a string; ImageFormatDetectionFailed otherwise.
detect_format(info) ==
    IF info.status # "zero" \/ ~IsJson(info.stdout)
    THEN [ok |-> FALSE, val |-> "ImageFormatDetectionFailed"]
    ELSE [ok |-> TRUE,
          val |-> IF FormatStr(info.stdout) = Absent THEN "raw"
                  ELSE FormatStr(info.stdout)]

\* format!("{gb}G")
SizeArg(gb) == ToString(gb) \o "G"

\* Variant of create_args: -F is left out for a raw base.
create_args_no_F_for_raw(base_fmt, base, overlay, size_gb) ==
    (IF base_fmt = "raw"
     THEN <<"create", "-f", "qcow2", "-b", base, overlay>>
     ELSE <<"create", "-f", "qcow2", "-F", base_fmt, "-b", base, overlay>>)
        \o (IF size_gb = <<>> THEN <<>> ELSE <<SizeArg(size_gb[1])>>)

\* The argument vector of `qemu-img create`.
create_args(base_fmt, base, overlay, size_gb) ==
    <<"create", "-f", "qcow2", "-F", base_fmt, "-b", base, overlay>>
        \o (IF size_gb = <<>> THEN <<>> ELSE <<SizeArg(size_gb[1])>>)

\* Variant of create_overlay: the exit status of `qemu-img create` is not
\* looked at.
create_overlay_unchecked(base, overlay, size_gb, info, create) ==
    LET fmt == detect_format(info) IN
    IF ~fmt.ok
    THEN [res |-> "ImageFormatDetectionFailed", argv |-> <<>>]
    ELSE [res |-> IF create = "spawn_failed" THEN "OverlayCreationFailed" ELSE "Ok",
          argv |-> create_args(fmt.val, base, overlay, size_gb)]

\* create_overlay: what it returns and the argv of the `qemu-img create` it
\* ran (<<>> when it ran none). create: "spawn_failed", "nonzero", "zero".
create_overlay(base, overlay, size_gb, info, create) ==
    LET fmt == detect_format(info) IN
    IF ~fmt.ok
    THEN [res |-> "ImageFormatDetectionFailed", argv |-> <<>>]
    ELSE [res |-> IF create = "zero" THEN "Ok" ELSE "OverlayCreationFailed",
          argv |-> create_args(fmt.val, base, overlay, size_gb)]

CreateRuns == {"spawn_failed", "nonzero", "zero"}
\* Option<u32>: <<>> for None, <<gb>> for Some(gb).
DiskSizes == {<<>>} \cup {<<gb>> : gb \in 1..MaxDiskGb}

CreateOverlay ==
    /\ call = NoCall
    /\ \E base \in BasePaths, name \in VmNames, size_gb \in DiskSizes,
          info \in InfoRuns, create \in CreateRuns :
        LET overlay == Join(work_dir(name), Overlay) IN
        call' = [fn |-> "create_overlay",
                 base |-> base, overlay |-> overlay, size_gb |-> size_gb,
                 info |-> info, create |-> create,
                 out |-> create_overlay(base, overlay, size_gb, info, create)]
    /\ UNCHANGED lifeVars

----------------------------------------------------------------------------
(* cloudinit::create_nocloud_iso_raw *)

SECTOR_SIZE == 2048
PVD_LBA == 16
VOLID_OFFSET == 40
VOLID_LEN == 32

\* Where ISO 9660 (section 8.4.3) keeps the Volume Identifier of the Primary
\* Volume Descriptor: sector 16, byte 40.
Iso9660VolIdOffset == 16 * 2048 + 40

\* The VmError that `?` makes of a std::io::Error.
FromIoError == "Io"

RECURSIVE Spaces(_)
Spaces(n) == IF n = 0 THEN "" ELSE " " \o Spaces(n - 1)

\* let mut buf = [b' '; VOLID_LEN]; buf[..label.len()].copy_from_slice(label)
VolIdBuf(label) == label \o Spaces(VOLID_LEN - Len(label))

\* An image as far as its Volume Identifier goes: the 32 bytes at the
\* standard offset. A write of 32 bytes elsewhere does not touch them.
Image(volid) == [o \in {Iso9660VolIdOffset} |-> volid]
WriteAt(img, offset, buf) ==
    [o \in DOMAIN img |-> IF o = offset THEN buf ELSE img[o]]
NoImage == Image("")

\* genisoimage and mkisofs write the -volid argument as given, padded with
\* spaces to the 32 bytes of the field.
ToolImage(volid) == Image(volid \o Spaces(32 - Len(volid)))

\* The volume identifiers an in-process builder may leave in the image.
BuilderVolIds == {Spaces(32), ToolImage("ISOIMAGE")[Iso9660VolIdOffset]}

ToolRuns == {"spawn_failed", "nonzero", "zero"}

\* What the host does to one call: the step whose I/O fails ("none": no
\* step), the builder's own volume identifier, how the two tools run.
IsoEnvs(pure_iso) ==
    IF pure_iso
    THEN [fail : {"none", "create_dir_all", "tempfile", "build_iso", "open"},
          builder_volid : BuilderVolIds, geniso : {"zero"}, mkisofs : {"zero"}]
    ELSE [fail : {"none", "create_dir_all", "tempfile"},
          builder_volid : {Spaces(32)}, geniso : ToolRuns, mkisofs : ToolRuns]

\* Variant of iso_pure: the patch is written to the start of sector 16.
iso_pure_patch_at_sector(user_data, meta_data, env) ==
    IF env.fail \in {"create_dir_all", "tempfile"}
    THEN [res |-> FromIoError, written |-> FALSE, img |-> NoImage]
    ELSE IF env.fail = "build_iso"
    THEN [res |-> "CloudInitIsoFailed", written |-> FALSE, img |-> NoImage]
    ELSE IF env.fail = "open"
    THEN [res |-> FromIoError, written |-> TRUE, img |-> Image(env.builder_volid)]
    ELSE [res |-> "Ok", written |-> TRUE,
          img |-> WriteAt(Image(env.builder_volid), PVD_LBA * SECTOR_SIZE,
                          VolIdBuf("CIDATA"))]

\* The pure-iso build: temp files, build_iso, then the PVD patch.
iso_pure(user_data, meta_data, env) ==
    IF env.fail \in {"create_dir_all", "tempfile"}
    THEN [res |-> FromIoError, written |-> FALSE, img |-> NoImage]
    ELSE IF env.fail = "build_iso"
    THEN [res |-> "CloudInitIsoFailed", written |-> FALSE, img |-> NoImage]
    ELSE IF env.fail = "open"
    THEN [res |-> FromIoError, written |-> TRUE, img |-> Image(env.builder_volid)]
    ELSE [res |-> "Ok", written |-> TRUE,
          img |-> WriteAt(Image(env.builder_volid),
                          PVD_LBA * SECTOR_SIZE + VOLID_OFFSET,
                          VolIdBuf("CIDATA"))]

\* Where the external build writes: out_iso, and the two files in its
\* tempdir.
OutIso == "/data/vm1/seed.iso"
SeedDir == "/tmp/.tmpAb12"

\* The command line of either tool.
tool_argv(tool) ==
    <<tool, "-quiet", "-output", OutIso, "-volid", "cidata", "-joliet", "-rock",
      Join(SeedDir, "user-data"), Join(SeedDir, "meta-data")>>

\* Variant of iso_external: mkisofs is also run after a genisoimage that
\* exited non-zero.
iso_external_retry_nonzero(user_data, meta_data, env) ==
    IF env.fail \in {"create_dir_all", "tempfile"}
    THEN [res |-> FromIoError, written |-> FALSE, img |-> NoImage, tried |-> <<>>]
    ELSE LET fallback == env.geniso # "zero"
             status == IF fallback THEN env.mkisofs ELSE env.geniso
             tried == IF fallback
                      THEN <<tool_argv("genisoimage"), tool_argv("mkisofs")>>
                      ELSE <<tool_argv("genisoimage")>> IN
         IF status = "spawn_failed"
         THEN [res |-> FromIoError, written |-> FALSE, img |-> NoImage,
               tried |-> tried]
         ELSE IF status = "nonzero"
         THEN [res |-> "CloudInitIsoFailed", written |-> FALSE, img |-> NoImage,
               tried |-> tried]
         ELSE [res |-> "Ok", written |-> TRUE, img |-> ToolImage("cidata"),
               tried |-> tried]

\* The build without pure-iso: genisoimage -volid cidata, and mkisofs with
\* the same arguments only when genisoimage could not be launched. tried:
\* the command lines whose launch was attempted, in order.
iso_external(user_data, meta_data, env) ==
    IF env.fail \in {"create_dir_all", "tempfile"}
    THEN [res |-> FromIoError, written |-> FALSE, img |-> NoImage, tried |-> <<>>]
    ELSE LET fallback == env.geniso = "spawn_failed"
             status == IF fallback THEN env.mkisofs ELSE env.geniso
             tried == IF fallback
                      THEN <<tool_argv("genisoimage"), tool_argv("mkisofs")>>
                      ELSE <<tool_argv("genisoimage")>> IN
         IF status = "spawn_failed"
         THEN [res |-> FromIoError, written |-> FALSE, img |-> NoImage,
               tried |-> tried]
         ELSE IF status = "nonzero"
         THEN [res |-> "CloudInitIsoFailed", written |-> FALSE, img |-> NoImage,
               tried |-> tried]
         ELSE [res |-> "Ok", written |-> TRUE, img |-> ToolImage("cidata"),
               tried |-> tried]

create_nocloud_iso_raw(pure_iso, user_data, meta_data, env) ==
    IF pure_iso
    THEN iso_pure(user_data, meta_data, env)
    ELSE iso_external(user_data, meta_data, env)

UserDatas == {"#cloud-config\n"}
MetaDatas == {"instance-id: x\nlocal-hostname: x\n"}

CreateIso ==
    /\ call = NoCall
    /\ \E pure_iso \in BOOLEAN, user_data \in UserDatas, meta_data \in MetaDatas :
       \E env \in IsoEnvs(pure_iso) :
        call' = [fn |-> "create_nocloud_iso_raw", pure_iso |-> pure_iso,
                 user_data |-> user_data, meta_data |-> meta_data, env |-> env,
                 out |-> create_nocloud_iso_raw(pure_iso, user_data, meta_data, env)]
    /\ UNCHANGED lifeVars

----------------------------------------------------------------------------
(* QemuBackend::prepare, step by step *)

\* Options are sequences: <<>> for None, <<x>> for Some(x).
Opt(S) == {<<>>} \cup {<<x>> : x \in S}
unwrap_or(o, d) == IF o = <<>> THEN d ELSE o[1]

\* CloudInitConfig: user_data, and optionally meta_data, instance_id, hostname.
CloudInits ==
    [user_data : UserDatas, meta_data : Opt(MetaDatas),
     instance_id : Opt({"i-1"}), hostname : Opt({"host1"})]

\* VmSpec, as far as prepare reads it.
VmSpecs ==
    [name : VmNames, image_path : BasePaths, disk_gb : DiskSizes,
     cloud_init : Opt(CloudInits)]

\* `qemu-img create` that exits zero has made the file it was asked for:
\* the first operand after the options, of the -f format, backed by the -b
\* file.
RECURSIVE Operands(_, _)
Operands(argv, i) ==
    IF i > Len(argv) THEN <<>>
    ELSE IF argv[i] \in {"-f", "-F", "-b"} THEN Operands(argv, i + 2)
    ELSE <<argv[i]>> \o Operands(argv, i + 1)

OptionValue(argv, flag) ==
    LET at == {i \in 1..(Len(argv) - 1) : argv[i] = flag} IN
    IF at = {} THEN Absent ELSE argv[(CHOOSE i \in at : TRUE) + 1]

QemuImgCreated(argv) ==
    [path |-> Operands(argv, 2)[1],
     format |-> OptionValue(argv, "-f"),
     backing_file |-> OptionValue(argv, "-b"),
     backing_fmt |-> OptionValue(argv, "-F")]

\* format!("instance-id: {instance_id}\nlocal-hostname: {hostname}\n")
meta_data_of(name, ci) ==
    "instance-id: " \o unwrap_or(ci.instance_id, name)
        \o "\nlocal-hostname: " \o unwrap_or(ci.hostname, name) \o "\n"

PrepareEnvs ==
    [create_dir_all : BOOLEAN, info : InfoRuns, create : CreateRuns,
     pure_iso : BOOLEAN, iso_fail : {"none", "build_iso"}]

\* The host's part in the ISO build of a prepare.
IsoEnvOf(env) ==
    [fail |-> IF env.pure_iso THEN env.iso_fail ELSE "none",
     builder_volid |-> Spaces(32),
     geniso |-> IF env.iso_fail = "none" THEN "zero" ELSE "nonzero",
     mkisofs |-> "zero"]

Failed(err, dir) ==
    [res |-> err, handle |-> <<>>, dirs |-> dir, overlay |-> <<>>, seed |-> <<>>]

\* prepare: what it returns (the handle on Ok) and what it leaves on disk:
\* the directories created, the overlay made by qemu-img, the seed ISO.
prepare(spec, env) ==
    LET dir == work_dir(spec.name)
        overlay == Join(dir, Overlay)
        made == create_overlay(spec.image_path, overlay, spec.disk_gb,
                               env.info, env.create)
        ovl == IF made.res = "Ok" /\ env.create = "zero"
               THEN <<QemuImgCreated(made.argv)>> ELSE <<>>
        ci == spec.cloud_init
        iso_path == Join(dir, SeedIso)
        meta_data == meta_data_of(spec.name, ci[1])
        iso == create_nocloud_iso_raw(env.pure_iso, ci[1].user_data, meta_data,
                                      IsoEnvOf(env))
        seed == IF ci # <<>> /\ iso.written
                THEN <<[path |-> iso_path, user_data |-> ci[1].user_data,
                        meta_data |-> meta_data, img |-> iso.img]>>
                ELSE <<>> IN
    IF ~env.create_dir_all THEN Failed(FromIoError, {})
    ELSE IF made.res # "Ok"
    THEN [res |-> made.res, handle |-> <<>>, dirs |-> {dir},
          overlay |-> ovl, seed |-> <<>>]
    ELSE IF ci # <<>> /\ iso.res # "Ok"
    THEN [res |-> iso.res, handle |-> <<>>, dirs |-> {dir},
          overlay |-> ovl, seed |-> seed]
    ELSE [res |-> "Ok",
          handle |-> <<[name |-> spec.name, backend |-> "Qemu", work_dir |-> dir,
                        overlay_path |-> <<overlay>>,
                        seed_iso_path |-> IF ci # <<>> THEN <<iso_path>> ELSE <<>>,
                        pid |-> <<>>,
                        qmp_socket |-> <<Join(dir, QmpSock)>>,
                        console_socket |-> <<Join(dir, ConsoleSock)>>]>>,
          dirs |-> {dir}, overlay |-> ovl, seed |-> seed]

PrepareSteps ==
    /\ call = NoCall
    /\ \E spec \in VmSpecs, env \in PrepareEnvs :
        call' = [fn |-> "prepare", spec |-> spec, env |-> env,
                 out |-> prepare(spec, env)]
    /\ UNCHANGED lifeVars

----------------------------------------------------------------------------
(* QemuBackend::start: the argument vector *)

\* The handles start may be given: those prepare makes, and handles whose
\* paths were set otherwise (a handle is plain data).
VmHandles ==
    UNION {[name : {n}, work_dir : {work_dir(n)},
            overlay_path : Opt({Join(work_dir(n), Overlay), "/img/other.qcow2"}),
            seed_iso_path : Opt({Join(work_dir(n), SeedIso)}),
            qmp_socket : Opt({Join(work_dir(n), QmpSock), "/run/q.sock"}),
            console_socket : Opt({Join(work_dir(n), ConsoleSock)})] : n \in VmNames}

SeedArgs(iso) ==
    <<"-drive", "file=" \o iso \o ",format=raw,if=none,id=seed,readonly=on",
      "-device", "virtio-blk-pci,drive=seed">>

\* Variant of start_args: the seed drive is appended after -pidfile.
start_args_seed_last(h) ==
    <<"-enable-kvm", "-machine", "q35,accel=kvm", "-cpu", "host", "-nodefaults",
      "-qmp", "unix:" \o h.qmp_socket[1] \o ",server,nowait",
      "-serial", "unix:" \o h.console_socket[1] \o ",server,nowait",
      "-vnc", "127.0.0.1:0",
      "-device", "virtio-rng-pci",
      "-drive", "file=" \o h.overlay_path[1]
                    \o ",format=qcow2,if=none,id=drive0,discard=unmap",
      "-device", "virtio-blk-pci,drive=drive0">>
    \o <<"-daemonize", "-pidfile", Join(h.work_dir, PidFile)>>
    \o (IF h.seed_iso_path # <<>> THEN SeedArgs(h.seed_iso_path[1]) ELSE <<>>)

\* args: the fixed part, the seed drive of a handle that has one, then
\* -daemonize and -pidfile.
start_args(h) ==
    <<"-enable-kvm", "-machine", "q35,accel=kvm", "-cpu", "host", "-nodefaults",
      "-qmp", "unix:" \o h.qmp_socket[1] \o ",server,nowait",
      "-serial", "unix:" \o h.console_socket[1] \o ",server,nowait",
      "-vnc", "127.0.0.1:0",
      "-device", "virtio-rng-pci",
      "-drive", "file=" \o h.overlay_path[1]
                    \o ",format=qcow2,if=none,id=drive0,discard=unmap",
      "-device", "virtio-blk-pci,drive=drive0">>
    \o (IF h.seed_iso_path # <<>> THEN SeedArgs(h.seed_iso_path[1]) ELSE <<>>)
    \o <<"-daemonize", "-pidfile", Join(h.work_dir, PidFile)>>

\* What start does before it spawns: InvalidState without an overlay path, a
\* panic on the unwrap of a missing socket path, else the launcher's argv.
start_command(h) ==
    IF h.overlay_path = <<>> THEN [res |-> "InvalidState", argv |-> <<>>]
    ELSE IF h.qmp_socket = <<>> \/ h.console_socket = <<>>
    THEN [res |-> "panic", argv |-> <<>>]
    ELSE [res |-> "spawn", argv |-> start_args(h)]

StartCommand ==
    /\ call = NoCall
    /\ \E h \in VmHandles :
        call' = [fn |-> "start", vm |-> h, out |-> start_command(h)]
    /\ UNCHANGED lifeVars

----------------------------------------------------------------------------
(* QemuBackend::guest_ip: the scan of `ip neigh show` *)

\* Most lines `ip neigh show` prints in one call.
MaxNeighLines == 2

StartsWith(s, p) == Len(s) >= Len(p) /\ SubSeq(s, 1, Len(p)) = p

Contains(s, p) ==
    \E i \in 1..(Len(s) + 1 - Len(p)) : SubSeq(s, i, i + Len(p) - 1) = p

IsSpace(c) == c \in {" ", "\t"}

Char(s, i) == SubSeq(s, i, i)

Min(S) == CHOOSE x \in S : \A y \in S : x <= y

\* str::lines: the pieces between line feeds, a final empty piece dropped.
RECURSIVE LinesFrom(_, _)
LinesFrom(s, from) ==
    IF from > Len(s) THEN <<>>
    ELSE LET feeds == {i \in from..Len(s) : Char(s, i) = "\n"} IN
         IF feeds = {} THEN <<SubSeq(s, from, Len(s))>>
         ELSE <<SubSeq(s, from, Min(feeds) - 1)>> \o LinesFrom(s, Min(feeds) + 1)

lines(s) == LinesFrom(s, 1)

\* split_whitespace().next(): None (<<>>) for a blank line.
first_token(line) ==
    LET inked == {i \in 1..Len(line) : ~IsSpace(Char(line, i))} IN
    IF inked = {} THEN <<>>
    ELSE LET start == Min(inked)
             blanks == {i \in start..Len(line) : IsSpace(Char(line, i))}
             end == IF blanks = {} THEN Len(line) ELSE Min(blanks) - 1 IN
         <<SubSeq(line, start, end)>>

\* Variant of ArpScan: the `127.` test is left out.
RECURSIVE ArpScanAnyIpv4(_, _)
ArpScanAnyIpv4(ls, i) ==
    IF i > Len(ls) THEN <<>>
    ELSE LET line == ls[i]
             ip == first_token(line) IN
         IF /\ (Contains(line, "REACHABLE") \/ Contains(line, "STALE"))
            /\ ip # <<>>
            /\ Contains(ip[1], ".")
         THEN ip
         ELSE ArpScanAnyIpv4(ls, i + 1)

\* The for loop over text.lines(), from line i on: Some(ip) of the first
\* line that passes the tests, None when no line does.
RECURSIVE ArpScan(_, _)
ArpScan(ls, i) ==
    IF i > Len(ls) THEN <<>>
    ELSE LET line == ls[i]
             ip == first_token(line) IN
         IF /\ (Contains(line, "REACHABLE") \/ Contains(line, "STALE"))
            /\ ip # <<>>
            /\ Contains(ip[1], ".") /\ ~StartsWith(ip[1], "127.")
         THEN ip
         ELSE ArpScan(ls, i + 1)

arp_ip(text) == ArpScan(lines(text), 1)

\* Lines of `ip neigh show`.
NeighLines ==
    {"192.168.122.10 dev virbr0 lladdr 52:54:00:ab:cd:ef REACHABLE",
     "127.0.0.1 dev lo REACHABLE",
     "10.0.0.7 dev br0 lladdr 52:54:00:00:00:07 STALE",
     "10.0.0.9 dev br0 FAILED",
     "fe80::1 dev br0 lladdr 52:54:00:00:00:01 router STALE",
     "::ffff:10.0.0.5 dev br0 lladdr 52:54:00:00:00:05 REACHABLE"}

RECURSIVE NeighTexts(_)
NeighTexts(n) ==
    IF n = 0 THEN {""}
    ELSE LET shorter == NeighTexts(n - 1) IN
         shorter \cup {t \o l \o "\n" : t \in shorter, l \in NeighLines}

GuestIpArp ==
    /\ call = NoCall
    /\ \E text \in NeighTexts(MaxNeighLines) :
        call' = [fn |-> "guest_ip", text |-> text, out |-> arp_ip(text)]
    /\ UNCHANGED lifeVars

----------------------------------------------------------------------------
(* QemuBackend::guest_ip: the methods in order *)

LeasesPath == "/var/lib/misc/dnsmasq.leases"

\* split_whitespace().collect(): the fields of a line, in order.
RECURSIVE FieldsFrom(_, _)
FieldsFrom(line, from) ==
    LET inked == {i \in from..Len(line) : ~IsSpace(Char(line, i))} IN
    IF inked = {} THEN <<>>
    ELSE LET start == Min(inked)
             blanks == {i \in start..Len(line) : IsSpace(Char(line, i))}
             end == IF blanks = {} THEN Len(line) ELSE Min(blanks) - 1 IN
         <<SubSeq(line, start, end)>> \o FieldsFrom(line, end + 1)

split_whitespace(line) == FieldsFrom(line, 1)

\* The dnsmasq fallback on the content of the lease file: parts[2] of
\* content.lines().last() when that line has three fields or more.
lease_ip(content) ==
    LET ls == lines(content) IN
    IF ls = <<>> THEN <<>>
    ELSE LET parts == split_whitespace(ls[Len(ls)]) IN
         IF Len(parts) >= 3 THEN <<parts[3]>> ELSE <<>>

\* guest_ip. ip_run: whether `ip neigh show` could be run; text: its stdout;
\* default_bridge: Some (<<b>>) or None; leases: the content of the lease
\* file, <<>> when read_to_string fails. The result has what was returned
\* and the files that were read.
guest_ip_methods(ip_run, text, default_bridge, leases) ==
    IF ip_run = "spawn_failed"
    THEN [res |-> "IpDiscoveryTimeout", ip |-> <<>>, read |-> {}]
    ELSE LET arp == arp_ip(text) IN
         IF arp # <<>> THEN [res |-> "Ok", ip |-> arp, read |-> {}]
         ELSE IF default_bridge # <<>>
         THEN LET found == IF leases = <<>> THEN <<>> ELSE lease_ip(leases[1]) IN
              [res |-> IF found # <<>> THEN "Ok" ELSE "IpDiscoveryTimeout",
               ip |-> found, read |-> {LeasesPath}]
         ELSE [res |-> "IpDiscoveryTimeout", ip |-> <<>>, read |-> {}]

IpRuns == {"spawn_failed", "ran"}

ArpTexts ==
    {"",
     "10.0.0.9 dev br0 FAILED\n",
     "10.0.0.7 dev br0 lladdr 52:54:00:00:00:07 STALE\n"}

Bridges == Opt({"virbr0"})

LeaseLine1 == "1700000000 52:54:00:ab:cd:ef 192.168.122.50 vm1 *"
LeaseLine2 == "1700000100 52:54:00:00:00:07 192.168.122.51 vm2 01:52:54"

LeaseFiles ==
    Opt({"", LeaseLine1 \o "\n", LeaseLine1 \o "\n" \o LeaseLine2 \o "\n",
         LeaseLine1 \o "\n" \o "1700000100 52:54:00:00:00:07\n",
         LeaseLine1 \o "\n" \o "  \n"})

GuestIpMethods ==
    /\ call = NoCall
    /\ \E ip_run \in IpRuns, text \in ArpTexts, default_bridge \in Bridges,
          leases \in LeaseFiles :
        call' = [fn |-> "guest_ip_methods", ip_run |-> ip_run, text |-> text,
                 default_bridge |-> default_bridge, leases |-> leases,
                 out |-> guest_ip_methods(ip_run, text, default_bridge, leases)]
    /\ UNCHANGED lifeVars

----------------------------------------------------------------------------
(* oci::resolve_auth *)

Anonymous == [kind |-> "Anonymous"]
Basic(user, password) == [kind |-> "Basic", user |-> user, password |-> password]

\* The environment variable GITHUB_TOKEN: not set (<<>>), or set to bytes that
\* are valid Unicode or not.
Tokens == {"ghp_s3cret", "ghp_0ther", ""}
TokenEnvs ==
    {<<>>} \cup {<<[unicode |-> TRUE, value |-> t]>> : t \in Tokens}
           \cup {<<[unicode |-> FALSE, value |-> "ghp_\\xff"]>>}

\* std::env::var: Ok(value) for a variable set to valid Unicode, else Err.
env_var(e) == IF e # <<>> /\ e[1].unicode THEN <<e[1].value>> ELSE <<>>

\* reference.registry() of the references pulled.
Registries ==
    {"ghcr.io", "docker.io", "quay.io", "ghcr.io.example.com", "ghcr.io:443",
     "localhost:5000"}

\* Variant of resolve_auth: the registry is tested with starts_with.
resolve_auth_by_prefix(registry, token_env) ==
    IF StartsWith(registry, "ghcr.io") /\ env_var(token_env) # <<>>
    THEN Basic("_token", env_var(token_env)[1])
    ELSE Anonymous

resolve_auth(registry, token_env) ==
    IF registry = "ghcr.io" /\ env_var(token_env) # <<>>
    THEN Basic("_token", env_var(token_env)[1])
    ELSE Anonymous

ResolveAuth ==
    /\ call = NoCall
    /\ \E registry \in Registries, token_env \in TokenEnvs :
        call' = [fn |-> "resolve_auth", registry |-> registry,
                 token_env |-> token_env, out |-> resolve_auth(registry, token_env)]
    /\ UNCHANGED lifeVars

----------------------------------------------------------------------------
(* The helpers called one at a time: each behaviour makes one call *)

FnInit ==
    /\ backend = "Qemu"
    /\ Fresh
    /\ call = NoCall
    /\ vms = NoVms

FnNext ==
    \/ CreateOverlay
    \/ CreateIso
    \/ PrepareSteps
    \/ StartCommand
    \/ GuestIpArp
    \/ GuestIpMethods
    \/ ResolveAuth

FnSpec == FnInit /\ [][FnNext]_vars

----------------------------------------------------------------------------
(* QmpClient: one session on the socket, line by line *)

\* Most reply and event lines the server writes after the handshake, and
\* most commands the caller issues, in one session.
MaxQmpLines == 2
MaxQmpCmds == 2

QmpCommands == {"query-status", "system_powerdown", "stop", "cont", "quit"}

Greeting == "{\"QMP\":{\"version\":{},\"capabilities\":[]}}"
ReturnEmpty == "{\"return\":{}}"
ReturnRunning == "{\"return\":{\"status\":\"running\"}}"
ErrorReply == "{\"error\":{\"class\":\"GenericError\",\"desc\":\"no\"}}"
EventLine == "{\"event\":\"SHUTDOWN\"}"
Malformed == "{\"return\":"

\* {"execute":"<name>"}
Execute(name) == "{\"execute\":\"" \o name \o "\"}"

\* The first line of the buffered bytes: the bytes before the first line
\* feed, None (<<>>) while no line feed has arrived before the stream ends.
read_line(stream) ==
    LET feeds == {i \in 1..Len(stream) : Char(stream, i) = "\n"} IN
    IF feeds = {} THEN <<>> ELSE <<SubSeq(stream, 1, Min(feeds) - 1)>>

after_line(stream) ==
    LET feeds == {i \in 1..Len(stream) : Char(stream, i) = "\n"} IN
    IF feeds = {} THEN "" ELSE SubSeq(stream, Min(feeds) + 1, Len(stream))

\* The line parses as a JSON object.
IsObject(line) ==
    /\ Len(line) >= 2
    /\ Char(line, 1) = "{" /\ Char(line, Len(line)) = "}"
    /\ Cardinality({i \in 1..Len(line) : Char(line, i) = "{"})
         = Cardinality({i \in 1..Len(line) : Char(line, i) = "}"})

\* The object has the top-level key.
HasKey(line, key) == IsObject(line) /\ StartsWith(line, "{\"" \o key \o "\":")

\* The value of the top-level key of a one-key object.
ValueOf(line, key) == SubSeq(line, Len(key) + 5, Len(line) - 1)

\* A session as connect left it: nothing read, nothing sent.
Connected(stream, cmds) ==
    [fn |-> "qmp", stream0 |-> stream, cmds0 |-> cmds, rest |-> stream,
     todo |-> cmds, phase |-> "connected", wire |-> <<>>, results |-> <<>>,
     seen |-> <<>>]

\* Handshake, first step: one line is read, the greeting.
read_greeting(s) ==
    LET line == read_line(s.rest) IN
    IF line # <<>> /\ HasKey(line[1], "QMP")
    THEN [s EXCEPT !.rest = after_line(s.rest), !.phase = "greeted",
                   !.seen = Append(s.seen, "greeting")]
    ELSE [s EXCEPT !.rest = after_line(s.rest), !.phase = "failed"]

\* Handshake, second step: qmp_capabilities is sent.
send_capabilities(s) ==
    [s EXCEPT !.wire = Append(s.wire, Execute("qmp_capabilities")),
              !.phase = "negotiating"]

\* Variant of read_capabilities_reply: the line read is not looked at.
read_capabilities_reply_unchecked(s) ==
    [s EXCEPT !.rest = after_line(s.rest), !.phase = "ready"]

\* Handshake, third step: one line is read, the reply {"return":{}}.
read_capabilities_reply(s) ==
    LET line == read_line(s.rest) IN
    IF line # <<>> /\ line[1] = ReturnEmpty
    THEN [s EXCEPT !.rest = after_line(s.rest), !.phase = "ready",
                   !.seen = Append(s.seen, "capabilities")]
    ELSE [s EXCEPT !.rest = after_line(s.rest), !.phase = "failed"]

\* A command is issued: {"execute":"<name>"} is sent, or the session is
\* closed when the caller has no more commands.
execute(s) ==
    IF s.todo = <<>> THEN [s EXCEPT !.phase = "closed"]
    ELSE [s EXCEPT !.wire = Append(s.wire, Execute(Head(s.todo))),
                   !.phase = "in_flight"]

\* The command in flight completes with res.
Completed(s, res) ==
    [s EXCEPT !.rest = after_line(s.rest), !.phase = "ready",
              !.todo = Tail(s.todo),
              !.results = Append(s.results, [cmd |-> Head(s.todo), res |-> res])]

\* Variant of read_reply: an event line is taken for the reply.
read_reply_event_completes(s) ==
    LET line == read_line(s.rest) IN
    IF line = <<>> THEN Completed(s, "QmpProtocol")
    ELSE IF HasKey(line[1], "event") THEN Completed(s, ValueOf(line[1], "event"))
    ELSE IF HasKey(line[1], "return") THEN Completed(s, ValueOf(line[1], "return"))
    ELSE Completed(s, "QmpProtocol")

\* One line is read for the command in flight: an event is discarded, a
\* return completes the call with its value, an error reply, a line that
\* does not parse and the end of the stream fail it with QmpProtocol.
read_reply(s) ==
    LET line == read_line(s.rest) IN
    IF line = <<>> THEN Completed(s, "QmpProtocol")
    ELSE IF HasKey(line[1], "event") THEN [s EXCEPT !.rest = after_line(s.rest)]
    ELSE IF HasKey(line[1], "return") THEN Completed(s, ValueOf(line[1], "return"))
    ELSE Completed(s, "QmpProtocol")

Over(s) == s.phase \in {"failed", "closed"}

qmp_step(s) ==
    CASE s.phase = "connected" -> read_greeting(s)
      [] s.phase = "greeted" -> send_capabilities(s)
      [] s.phase = "negotiating" -> read_capabilities_reply(s)
      [] s.phase = "ready" -> execute(s)
      [] s.phase = "in_flight" -> read_reply(s)
      [] OTHER -> s

\* The session run to its end.
RECURSIVE qmp_run(_)
qmp_run(s) == IF Over(s) THEN s ELSE qmp_run(qmp_step(s))

\* What the server writes after the handshake.
ReplyLines == {ReturnRunning, ErrorReply, EventLine, Malformed}

RECURSIVE ReplyStreams(_)
ReplyStreams(n) ==
    IF n = 0 THEN {""}
    ELSE LET shorter == ReplyStreams(n - 1) IN
         shorter \cup {t \o l \o "\n" : t \in shorter, l \in ReplyLines}

\* What the server writes up to the end of the handshake: QEMU sends no
\* event before the capabilities are negotiated.
Handshakes ==
    {"", Greeting \o "\n", Greeting, Malformed \o "\n", ReturnEmpty \o "\n",
     Greeting \o "\n" \o ErrorReply \o "\n",
     Greeting \o "\n" \o Malformed \o "\n",
     Greeting \o "\n" \o ReturnRunning \o "\n"}

GoodHandshake == Greeting \o "\n" \o ReturnEmpty \o "\n"

ServerStreams ==
    Handshakes \cup {GoodHandshake \o t : t \in ReplyStreams(MaxQmpLines)}

RECURSIVE CommandSeqs(_)
CommandSeqs(n) ==
    IF n = 0 THEN {<<>>}
    ELSE LET shorter == CommandSeqs(n - 1) IN
         shorter \cup {Append(c, x) : c \in shorter, x \in QmpCommands}

InSession(phase) == call.fn = "qmp" /\ call.phase = phase

QmpReadGreeting ==
    /\ InSession("connected")
    /\ call' = read_greeting(call)
    /\ UNCHANGED lifeVars

QmpSendCapabilities ==
    /\ InSession("greeted")
    /\ call' = send_capabilities(call)
    /\ UNCHANGED lifeVars

QmpReadCapabilitiesReply ==
    /\ InSession("negotiating")
    /\ call' = read_capabilities_reply(call)
    /\ UNCHANGED lifeVars

QmpExecute ==
    /\ InSession("ready")
    /\ call' = execute(call)
    /\ UNCHANGED lifeVars

QmpReadReply ==
    /\ InSession("in_flight")
    /\ call' = read_reply(call)
    /\ UNCHANGED lifeVars

QmpInit ==
    /\ backend = "Qemu" /\ Fresh /\ vms = NoVms
    /\ call \in {Connected(stream, cmds) :
                    stream \in ServerStreams, cmds \in CommandSeqs(MaxQmpCmds)}

QmpNext ==
    \/ QmpReadGreeting
    \/ QmpSendCapabilities
    \/ QmpReadCapabilitiesReply
    \/ QmpExecute
    \/ QmpReadReply

QmpSpec == QmpInit /\ [][QmpNext]_vars

----------------------------------------------------------------------------
(* QmpClient::connect: connect-with-wait *)

\* The pause between two connection attempts (ms).
RetryMs == 100

\* The timeout each caller passes to QmpClient::connect (ms).
StartConnectMs == 10000
StopConnectMs == 2000
SuspendConnectMs == 5000
ResumeConnectMs == 5000
QuitConnectMs == 2000
StateConnectMs == 2000

ConnectTimeout(caller) ==
    CASE caller = "start" -> StartConnectMs
      [] caller = "stop" -> StopConnectMs
      [] caller = "suspend" -> SuspendConnectMs
      [] caller = "resume" -> ResumeConnectMs
      [] caller = "destroy_quit" -> QuitConnectMs
      [] caller = "state" -> StateConnectMs

Callers == {"start", "stop", "suspend", "resume", "destroy_quit", "state"}

\* When the socket becomes connectable, in ms after the call: never (<<>>),
\* at once, early, or around the caller's timeout.
ReadyTimes(t) ==
    Opt({0, 50, RetryMs, 250, t - RetryMs, t - 50, t, t + 50, t + RetryMs})

Connecting(caller, ready) ==
    [fn |-> "connect", caller |-> caller, timeout |-> ConnectTimeout(caller),
     ready |-> ready, elapsed |-> 0, attempts |-> 0, phase |-> "attempt"]

Connectable(c) == c.ready # <<>> /\ c.ready[1] <= c.elapsed

\* Variant of connect_attempt: there is no deadline.
connect_attempt_no_deadline(c) ==
    IF Connectable(c)
    THEN [c EXCEPT !.attempts = c.attempts + 1, !.phase = "connected"]
    ELSE [c EXCEPT !.attempts = c.attempts + 1, !.phase = "sleep"]

\* One attempt: connected, or QmpConnectTimeout once the timeout has
\* elapsed, or a pause before the next attempt.
connect_attempt(c) ==
    IF Connectable(c)
    THEN [c EXCEPT !.attempts = c.attempts + 1, !.phase = "connected"]
    ELSE IF c.elapsed >= c.timeout
    THEN [c EXCEPT !.attempts = c.attempts + 1, !.phase = "QmpConnectTimeout"]
    ELSE [c EXCEPT !.attempts = c.attempts + 1, !.phase = "sleep"]

connect_sleep(c) == [c EXCEPT !.elapsed = c.elapsed + RetryMs, !.phase = "attempt"]

ConnectAttempt ==
    /\ call.fn = "connect" /\ call.phase = "attempt"
    /\ call' = connect_attempt(call)
    /\ UNCHANGED lifeVars

ConnectSleep ==
    /\ call.fn = "connect" /\ call.phase = "sleep"
    /\ call' = connect_sleep(call)
    /\ UNCHANGED lifeVars

ConnectInit ==
    /\ backend = "Qemu" /\ Fresh /\ vms = NoVms
    /\ call \in {Connecting(caller, ready) :
                    caller \in Callers, ready \in ReadyTimes(StartConnectMs)
                        \cup ReadyTimes(SuspendConnectMs) \cup ReadyTimes(StopConnectMs)}

ConnectNext ==
    \/ ConnectAttempt
    \/ ConnectSleep

\* The runtime keeps polling the connect the caller awaits, and each pause
\* ends.
ConnectSpec == ConnectInit /\ [][ConnectNext]_vars /\ WF_vars(ConnectNext)

----------------------------------------------------------------------------
(* Two QEMU VMs of distinct names on one host *)

\* The kvm host is healthy here: files can be written, the QEMU binary
\* exists, a guest honours a powerdown and QMP answers. What is left is what
\* the two VMs can do to each other. Each VM has its own work_dir
\* (work_dir(name) differs for distinct names), and so its own overlay,
\* sockets and pidfile; every QEMU is given the same display, -vnc
\* 127.0.0.1:0, which is TCP port 5900 of the loopback address.

VncArg == "127.0.0.1:0"

FreshVm ==
    [held |-> FALSE, dir |-> FALSE, pidfile |-> "none", socks |-> FALSE,
     proc |-> "none", pc |-> "idle", launcher |-> "none", last |-> "none"]

\* A QEMU process of any VM is alive and so holds display 0.
VncDisplayBusy == \E m \in VmNames : vms[m].proc # "none"

\* prepare: work_dir and overlay are created and the handle is returned.
pair_prepare(v) ==
    IF v.pc = "idle"
    THEN {[v EXCEPT !.held = TRUE, !.dir = TRUE, !.last = "prepare:Ok"]}
    ELSE {}

\* start up to .status().await: the launcher runs QEMU with the argument
\* vector of start. QEMU binds its sockets and the display; with the display
\* taken it exits non-zero, else it daemonizes and writes its pidfile.
pair_spawn(v, busy) ==
    IF v.held /\ v.dir /\ v.pc = "idle"
    THEN {IF busy
          THEN [v EXCEPT !.pc = "start_wait", !.launcher = "exit1", !.last = "none"]
          ELSE [v EXCEPT !.pc = "start_wait", !.launcher = "exit0", !.last = "none",
                         !.proc = "running", !.pidfile = "live", !.socks = TRUE]}
    ELSE {}

\* start from the launcher's exit status on: non-zero is QemuSpawnFailed,
\* zero goes on to the QMP check, which passes on this host.
pair_start_return(v) ==
    IF v.pc = "start_wait"
    THEN {[v EXCEPT !.pc = "idle", !.launcher = "none",
                    !.last = IF v.launcher = "exit0" THEN "start:Ok"
                             ELSE "start:QemuSpawnFailed"]}
    ELSE {}

\* The process ends by itself or on a powerdown; it may unlink its pidfile
\* and sockets.
pair_exited(v) ==
    {[v EXCEPT !.proc = "none",
               !.pidfile = IF unlinks THEN "none"
                           ELSE IF v.pidfile = "live" THEN "stale" ELSE v.pidfile,
               !.socks = IF unlinks THEN FALSE ELSE v.socks] : unlinks \in BOOLEAN}

\* stop: powerdown over the VM's own QMP socket, then the poll on the VM's
\* own pidfile until the process is gone.
pair_stop(v) ==
    IF v.held /\ v.pc = "idle"
    THEN {[w EXCEPT !.last = "stop:Ok"] :
              w \in (IF v.proc = "none" THEN {v} ELSE pair_exited(v))}
    ELSE {}

\* destroy: stop, quit, remove_dir_all(work_dir); the handle is consumed.
pair_destroy(v) ==
    IF v.held /\ v.pc = "idle"
    THEN {[FreshVm EXCEPT !.last = "destroy:Ok"]}
    ELSE {}

\* The guest powers off.
pair_poweroff(v) ==
    IF v.proc # "none" /\ v.pc = "idle" THEN pair_exited(v) ELSE {}

\* A step of the VM named n to w; every other variable stays.
PairStep(n, w) ==
    /\ vms' = [vms EXCEPT ![n] = w]
    /\ UNCHANGED <<backend, call, vm, fsVars, procVars, op, pc, stopVars, sent, qmpSeen,
                   rmErr, result, recovering, noopVars>>

PairPrepare == \E n \in VmNames : \E w \in pair_prepare(vms[n]) : PairStep(n, w)

PairSpawn ==
    \E n \in VmNames : \E w \in pair_spawn(vms[n], VncDisplayBusy) : PairStep(n, w)

PairStartReturn ==
    \E n \in VmNames : \E w \in pair_start_return(vms[n]) : PairStep(n, w)

PairStop == \E n \in VmNames : \E w \in pair_stop(vms[n]) : PairStep(n, w)

PairDestroy == \E n \in VmNames : \E w \in pair_destroy(vms[n]) : PairStep(n, w)

PairPowerOff == \E n \in VmNames : \E w \in pair_poweroff(vms[n]) : PairStep(n, w)

PairInit ==
    /\ backend = "Qemu" /\ Fresh /\ call = NoCall
    /\ vms = [n \in VmNames |-> FreshVm]

PairNext ==
    \/ PairPrepare
    \/ PairSpawn
    \/ PairStartReturn
    \/ PairStop
    \/ PairDestroy
    \/ PairPowerOff

PairSpec == PairInit /\ [][PairNext]_vars

----------------------------------------------------------------------------
(* QemuBackend: the handles that prepare returns and the work_dir they name *)

\* Most handles that prepare returns in one behaviour.
MaxHandles == 3

\* A work_dir that does not exist. overlay is the number of the prepare that
\* wrote overlay.qcow2 (0: no overlay); pidfile, socks and proc are the
\* pidfile, the two sockets and the QEMU process started from this work_dir.
NoDir == [exists |-> FALSE, overlay |-> 0, pidfile |-> FALSE, socks |-> FALSE,
          proc |-> FALSE]

\* format!("qemu-{}", Uuid::new_v4()): the k-th uuid drawn.
qemu_id(k) == "qemu-" \o ToString(k)

\* The VmHandle that the k-th successful prepare builds for spec.name.
Handle(k, name) ==
    [id |-> qemu_id(k), name |-> name, work_dir |-> work_dir(name),
     qmp_socket |-> Join(work_dir(name), QmpSock)]

\* No handle returned yet, nothing on disk.
NoHandles ==
    [fn |-> "handles", held |-> {}, made |-> 0,
     disk |-> [d \in {work_dir(n) : n \in VmNames} |-> NoDir],
     last |-> [op |-> "none", val |-> "none"]]

\* prepare with outcome o: "Io" (create_dir_all fails), "OverlayFailed", "Ok".
handles_prepare(c, name, o) ==
    LET d == work_dir(name)
        k == c.made + 1
    IN  [c EXCEPT
            !.made = IF o = "Ok" THEN k ELSE @,
            !.disk[d] = IF o = "Io" THEN @
                        ELSE [@ EXCEPT !.exists = TRUE,
                                       !.overlay = IF o = "Ok" THEN k ELSE @],
            !.held = IF o = "Ok" THEN @ \cup {Handle(k, name)} ELSE @,
            !.last = [op |-> "prepare", val |-> IF o = "Ok" THEN qemu_id(k) ELSE o]]

\* start: the launcher fails without a work_dir or beside a live QEMU of the
\* same work_dir; else QEMU daemonizes with pidfile and sockets there.
handles_start(c, h) ==
    LET d == h.work_dir
    IN  IF ~c.disk[d].exists \/ c.disk[d].proc
        THEN [c EXCEPT !.last = [op |-> "start", val |-> "QemuSpawnFailed"]]
        ELSE [c EXCEPT !.disk[d] = [@ EXCEPT !.proc = TRUE, !.pidfile = TRUE,
                                             !.socks = TRUE],
                       !.last = [op |-> "start", val |-> "Ok"]]

\* Variant of handles_destroy: work_dir is removed only with the last handle
\* that names it.
handles_destroy_last_owner(c, h, removed) ==
    LET d == h.work_dir
        shared == \E g \in c.held \ {h} : g.work_dir = d
    IN  [c EXCEPT
            !.held = @ \ {h},
            !.disk[d] = IF shared THEN @
                        ELSE IF removed THEN NoDir ELSE [@ EXCEPT !.proc = FALSE],
            !.last = [op |-> "destroy", val |-> "Ok"]]

\* destroy: stop and quit end the process that work_dir/qemu.pid and
\* work_dir/qmp.sock lead to, remove_dir_all(work_dir) removes the directory
\* or fails unnoticed; the handle is consumed.
handles_destroy(c, h, removed) ==
    LET d == h.work_dir
    IN  [c EXCEPT
            !.held = @ \ {h},
            !.disk[d] = IF removed THEN NoDir ELSE [@ EXCEPT !.proc = FALSE],
            !.last = [op |-> "destroy", val |-> "Ok"]]

HandlesLive == call.fn = "handles"

HandlePrepare ==
    /\ HandlesLive /\ call.made < MaxHandles
    /\ \E name \in VmNames : \E o \in {"Io", "OverlayFailed", "Ok"} :
          call' = handles_prepare(call, name, o)
    /\ UNCHANGED lifeVars

HandleStart ==
    /\ HandlesLive
    /\ \E h \in call.held : call' = handles_start(call, h)
    /\ UNCHANGED lifeVars

HandleDestroy ==
    /\ HandlesLive
    /\ \E h \in call.held : \E removed \in BOOLEAN :
          call' = handles_destroy(call, h, removed)
    /\ UNCHANGED lifeVars

HandlesInit ==
    /\ backend = "Qemu" /\ Fresh /\ vms = NoVms
    /\ call = NoHandles

HandlesNext ==
    \/ HandlePrepare
    \/ HandleStart
    \/ HandleDestroy

HandlesSpec == HandlesInit /\ [][HandlesNext]_vars

----------------------------------------------------------------------------
(* ImageManager::download, download_raw, download_zstd *)

\* Chunks in the response body of a whole image.
ImageChunks == 3

\* Most HTTP requests sent in one behaviour.
MaxRequests == 3

\* A file is <<>> when absent, <<n>> when present with n chunks written.
\* dest is destination, tmp the .zst.tmp file beside it, got the chunks the
\* stream has delivered, requests the HTTP requests sent so far.
NoDownload ==
    [fn |-> "download", pc |-> "idle", dest |-> <<>>, tmp |-> <<>>, got |-> 0,
     requests |-> 0, last |-> "none"]

\* download up to the first stream item. o: "dir_failed" (create_dir_all),
\* "send_failed" (client.get(url).send()), "create_failed" (File::create of
\* the file streamed to), "ok".
download(c, is_zstd, o) ==
    IF c.dest # <<>>
    THEN [c EXCEPT !.last = "Ok"]
    ELSE CASE o = "dir_failed" -> [c EXCEPT !.last = "Io"]
           [] o = "send_failed" ->
                [c EXCEPT !.requests = @ + 1, !.last = "ImageDownloadFailed"]
           [] o = "create_failed" -> [c EXCEPT !.requests = @ + 1, !.last = "Io"]
           [] OTHER ->
                IF is_zstd
                THEN [c EXCEPT !.requests = @ + 1, !.pc = "zstd", !.tmp = <<0>>,
                               !.got = 0, !.last = "none"]
                ELSE [c EXCEPT !.requests = @ + 1, !.pc = "raw", !.dest = <<0>>,
                               !.got = 0, !.last = "none"]

\* What stream.next() can give after c.got chunks.
StreamItems(c) ==
    IF c.got < ImageChunks THEN {"chunk", "error", "write_failed"} ELSE {"end"}

\* Variant of download_stream: download_raw removes destination when the
\* stream or the write fails.
download_stream_removes_partial(c, item) ==
    CASE item = "chunk" ->
            IF c.pc = "raw"
            THEN [c EXCEPT !.dest = <<c.dest[1] + 1>>, !.got = @ + 1]
            ELSE [c EXCEPT !.tmp = <<c.tmp[1] + 1>>, !.got = @ + 1]
      [] item = "error" ->
            [c EXCEPT !.pc = "idle", !.last = "ImageDownloadFailed",
                      !.dest = IF c.pc = "raw" THEN <<>> ELSE @]
      [] item = "write_failed" ->
            [c EXCEPT !.pc = "idle", !.last = "Io",
                      !.dest = IF c.pc = "raw" THEN <<>> ELSE @]
      [] OTHER ->
            IF c.pc = "raw"
            THEN [c EXCEPT !.pc = "idle", !.last = "Ok"]
            ELSE [c EXCEPT !.pc = "decompress"]

\* One turn of the `while let Some(item) = stream.next().await` loop of
\* download_raw (into destination) or download_zstd (into the tmp file), and
\* the end of the stream.
download_stream(c, item) ==
    CASE item = "chunk" ->
            IF c.pc = "raw"
            THEN [c EXCEPT !.dest = <<c.dest[1] + 1>>, !.got = @ + 1]
            ELSE [c EXCEPT !.tmp = <<c.tmp[1] + 1>>, !.got = @ + 1]
      [] item = "error" -> [c EXCEPT !.pc = "idle", !.last = "ImageDownloadFailed"]
      [] item = "write_failed" -> [c EXCEPT !.pc = "idle", !.last = "Io"]
      [] OTHER ->
            IF c.pc = "raw"
            THEN [c EXCEPT !.pc = "idle", !.last = "Ok"]
            ELSE [c EXCEPT !.pc = "decompress"]

\* download_zstd after the stream: open the tmp file, create destination,
\* io::copy through the decoder (written chunks of destination on failure),
\* remove the tmp file. o: "open_failed", "create_failed", a number of
\* chunks below ImageChunks written before io::copy fails, or "ok".
decompress(c, o, written) ==
    CASE o = "open_failed" -> [c EXCEPT !.pc = "idle", !.last = "Io"]
      [] o = "create_failed" -> [c EXCEPT !.pc = "idle", !.last = "Io"]
      [] o = "copy_failed" ->
            [c EXCEPT !.pc = "idle", !.last = "Io", !.dest = <<written>>]
      [] OTHER ->
            [c EXCEPT !.pc = "idle", !.last = "Ok", !.dest = <<ImageChunks>>,
                      !.tmp = <<>>]

Downloading(at) == call.fn = "download" /\ call.pc = at

Download ==
    /\ Downloading("idle")
    /\ call.requests < MaxRequests
    /\ \E is_zstd \in BOOLEAN :
       \E o \in {"dir_failed", "send_failed", "create_failed", "ok"} :
          call' = download(call, is_zstd, o)
    /\ UNCHANGED lifeVars

DownloadStream ==
    /\ Downloading("raw") \/ Downloading("zstd")
    /\ \E item \in StreamItems(call) : call' = download_stream(call, item)
    /\ UNCHANGED lifeVars

DownloadDecompress ==
    /\ Downloading("decompress")
    /\ \E o \in {"open_failed", "create_failed", "copy_failed", "ok"} :
       \E written \in 0..(ImageChunks - 1) :
          call' = decompress(call, o, written)
    /\ UNCHANGED lifeVars

DownloadInit ==
    /\ backend = "Qemu" /\ Fresh /\ vms = NoVms
    /\ call = NoDownload

DownloadNext ==
    \/ Download
    \/ DownloadStream
    \/ DownloadDecompress

DownloadSpec == DownloadInit /\ [][DownloadNext]_vars

----------------------------------------------------------------------------
(* provision::run_provisions, run_shell, run_file *)

\* Longest list of provision steps.
MaxSteps == 2

\* The kinds of ProvisionDef: Shell with inline, Shell with script, File, and
\* Shell with neither inline nor script.
StepKinds == {"inline", "script", "file", "empty"}

\* log_dir: None, a directory where provision.log can be opened, or one where
\* the open fails.
LogDirs == {"none", "ok", "unopenable"}

\* What the session can answer to a step of the kind: the upload fails, the
\* exec fails, the command exits with a code, the upload of a file succeeds.
StepOutcomes(kind) ==
    CASE kind = "inline" -> {"exec_failed", "exit0", "exit1"}
      [] kind = "script" -> {"upload_failed", "exec_failed", "exit0", "exit1"}
      [] kind = "file" -> {"upload_failed", "uploaded"}
      [] OTHER -> {"nothing"}

\* The session operations a step makes before outcome o is known.
StepActs(kind, o) ==
    CASE kind = "inline" -> <<"exec">>
      [] kind = "script" -> IF o = "upload_failed" THEN <<"upload">>
                            ELSE <<"upload", "exec">>
      [] kind = "file" -> <<"upload">>
      [] OTHER -> <<>>

NoOutcome == [res |-> "none", step |-> 0]
ProvisionFailed(step) == [res |-> "ProvisionFailed", step |-> step]

\* run_provisions called with a list of steps and a log_dir.
Provisioning(steps, log_dir) ==
    [fn |-> "run_provisions", steps |-> steps, log_dir |-> log_dir, next |-> 1,
     pc |-> "step", done |-> <<>>, acts |-> <<>>, log |-> <<>>,
     result |-> NoOutcome]

\* append_provision_log under `if let Some(dir) = log_dir`: the entry of the
\* step is appended when the file can be opened.
append_provision_log(c) ==
    IF c.log_dir = "ok" THEN Append(c.log, c.next) ELSE c.log

TagStep(step, names) == [k \in 1..Len(names) |-> [step |-> step, act |-> names[k]]]

\* Variant of run_step: the exit code is looked at before the output is
\* logged, a non-zero code returns without a log entry.
run_step_checks_exit_first(c, o) ==
    LET step == c.next
        kind == c.steps[step]
        d == [c EXCEPT !.done = Append(@, o),
                       !.acts = @ \o TagStep(step, StepActs(kind, o))]
    IN  CASE o \in {"upload_failed", "exec_failed"} ->
                [d EXCEPT !.pc = "done", !.result = ProvisionFailed(step)]
          [] o = "exit1" -> [d EXCEPT !.pc = "exit"]
          [] o = "exit0" -> [d EXCEPT !.pc = "exit", !.log = append_provision_log(c)]
          [] o = "uploaded" ->
                [d EXCEPT !.next = @ + 1, !.log = append_provision_log(c)]
          [] OTHER -> [d EXCEPT !.next = @ + 1]

\* run_shell and run_file for step c.next, up to the test of the exit code:
\* an upload or exec error is ProvisionFailed with the step number; the
\* output of a command that ran is logged whatever its exit code.
run_step(c, o) ==
    LET step == c.next
        kind == c.steps[step]
        d == [c EXCEPT !.done = Append(@, o),
                       !.acts = @ \o TagStep(step, StepActs(kind, o))]
    IN  CASE o \in {"upload_failed", "exec_failed"} ->
                [d EXCEPT !.pc = "done", !.result = ProvisionFailed(step)]
          [] o \in {"exit0", "exit1"} ->
                [d EXCEPT !.pc = "exit", !.log = append_provision_log(c)]
          [] o = "uploaded" ->
                [d EXCEPT !.next = @ + 1, !.log = append_provision_log(c)]
          [] OTHER -> [d EXCEPT !.next = @ + 1]

\* `if exit_code != 0 { return Err(ProvisionFailed) }`, else the next step.
check_exit(c) ==
    IF c.done[c.next] # "exit0"
    THEN [c EXCEPT !.pc = "done", !.result = ProvisionFailed(c.next)]
    ELSE [c EXCEPT !.pc = "step", !.next = @ + 1]

Provisions(at) == call.fn = "run_provisions" /\ call.pc = at

ProvisionStep ==
    /\ Provisions("step") /\ call.next <= Len(call.steps)
    /\ \E o \in StepOutcomes(call.steps[call.next]) : call' = run_step(call, o)
    /\ UNCHANGED lifeVars

ProvisionExit ==
    /\ Provisions("exit")
    /\ call' = check_exit(call)
    /\ UNCHANGED lifeVars

\* The loop is over: Ok(()).
ProvisionDone ==
    /\ Provisions("step") /\ call.next > Len(call.steps)
    /\ call' = [call EXCEPT !.pc = "done", !.result = [res |-> "Ok", step |-> 0]]
    /\ UNCHANGED lifeVars

ProvisionInit ==
    /\ backend = "Qemu" /\ Fresh /\ vms = NoVms
    /\ \E n \in 0..MaxSteps : \E steps \in [1..n -> StepKinds] : \E log_dir \in LogDirs :
          call = Provisioning(steps, log_dir)

ProvisionNext ==
    \/ ProvisionStep
    \/ ProvisionExit
    \/ ProvisionDone

ProvisionSpec == ProvisionInit /\ [][ProvisionNext]_vars

----------------------------------------------------------------------------
(* Properties *)

\* A step of the operation in progress (the host's steps leave these alone).
OpStep == <<op, pc, elapsed>>' # <<op, pc, elapsed>>

StopReturns == op = "stop" /\ op' = "none"
DestroyReturns == op = "destroy" /\ op' = "none"
StartReturnsOk == op = "start" /\ op' = "none" /\ result'.val = "Ok"

\* A QEMU process of the VM is alive.
QemuAlive == proc # "none" \/ orphan

WorkDirExists == IF backend = "Qemu" THEN dirExists ELSE noopDir

\* C1: when stop returns, a pid that qemu.pid names is not alive, on every
\* path of stop, the SIGTERM and SIGKILL escalation included.
C1_StopLeavesNoLivePid ==
    [][StopReturns => (read_pid' # None => ~pid_alive(read_pid)')]_vars

\* C2: every stop returns Ok, whatever QMP, the pidfile and the process do.
C2_StopNeverFails == result.op = "stop" => result.val = "Ok"

\* C2 witness: a stop has returned Ok although the process survived SIGTERM
\* and was sent SIGKILL.
C2_Witness ==
    /\ Idle /\ result = Returned("stop", "Ok")
    /\ Has(sent, "SIGTERM") /\ Has(sent, "SIGKILL")
    /\ proc # "none"

\* C3 as claimed: after destroy returns, work_dir does not exist, whichever
\* backend, also when the removal fails.
C3_DestroyRemovesWorkDir ==
    (Idle /\ result.op = "destroy") => ~WorkDirExists

\* C3 as amended: after destroy returns Ok, work_dir does not exist unless
\* remove_dir_all failed, and then destroy has dropped the error.
C3_DestroyRemovesWorkDirUnlessRmFails ==
    (Idle /\ result.op = "destroy") =>
        /\ result.val = "Ok"
        /\ WorkDirExists => rmErr

\* C3 witness: a destroy of a running VM that went up to SIGKILL has
\* returned and work_dir is gone.
C3_Witness ==
    /\ Idle /\ result = Returned("destroy", "Ok")
    /\ backend = "Qemu" /\ Has(sent, "SIGKILL")
    /\ ~rmErr /\ ~dirExists

\* C4 as claimed: state returns Destroyed iff work_dir does not exist, for
\* QEMU and Noop handles alike.
C4_DestroyedIffNoWorkDir ==
    (Idle /\ result.op = "state") => (result.val = "Destroyed" <=> ~WorkDirExists)

\* C4 as amended: for a QEMU handle state returns Destroyed iff work_dir does
\* not exist; for a Noop handle state returns Prepared, destroyed or not.
C4_DestroyedIffNoWorkDirQemu ==
    (Idle /\ result.op = "state") =>
        IF backend = "Qemu"
        THEN result.val = "Destroyed" <=> ~dirExists
        ELSE result.val = "Prepared"

\* C4 witness: state has returned Destroyed for a QEMU handle whose VM was
\* started and destroyed, while its process lives on as an orphan.
C4_Witness ==
    /\ Idle /\ result = Returned("state", "Destroyed")
    /\ backend = "Qemu" /\ ~dirExists /\ orphan

\* C5: when start returns Ok, qemu.pid names a live pid and a query-status
\* on qmp.sock was answered during that start.
C5_StartOkVerified ==
    [][StartReturnsOk =>
          /\ read_pid' = QemuPid /\ pid_alive(QemuPid)'
          /\ qmpSeen' = "ok"
          /\ Has(sent', "query-status")]_vars

\* C5 witness: a start has returned Ok and the daemon runs.
C5_Witness ==
    /\ Idle /\ result = Returned("start", "Ok")
    /\ proc = "running" /\ read_pid = QemuPid

\* C6: a destroy called right after a start that failed or was cancelled with
\* the daemon up recovers: when it returns the QEMU process is not alive and
\* work_dir does not exist. Stated for the destroys whose remove_dir_all
\* succeeded and that found no orphan of an earlier destroy.
C6_DestroyRecoversOrphan ==
    [][(DestroyReturns /\ recovering /\ ~orphan /\ ~rmErr')
          => (~QemuAlive' /\ ~dirExists')]_vars

\* C7 as claimed: when stop finds no readable pidfile, no QEMU process of the
\* VM is alive.
C7_NoPidfileNoProcess ==
    (op \in {"stop", "destroy"} /\ pc = "stop_poll" /\ read_pid = None)
        => ~QemuAlive

\* C7 as amended: when stop finds no readable pidfile it returns Ok at once
\* and sends no signal, whether or not a QEMU process of the VM is alive.
C7_NoPidfileReturnsAtOnce ==
    [][(op \in {"stop", "destroy"} /\ pc \in {"stop_poll", "stop_term"}
            /\ read_pid = None /\ OpStep)
          => /\ pc' = IF op = "stop" THEN "idle" ELSE "destroy_quit"
             /\ op = "stop" => result' = Returned("stop", "Ok")
             /\ sent' = sent
             /\ UNCHANGED <<fsVars, procVars>>]_vars

\* C7 witness: a stop has returned Ok without a signal, no pidfile is
\* readable and a QEMU process of the VM is alive.
C7_Witness ==
    /\ Idle /\ result = Returned("stop", "Ok")
    /\ read_pid = None /\ QemuAlive
    /\ ~Has(sent, "SIGTERM") /\ ~Has(sent, "SIGKILL")

\* C8: a destroy of a handle whose work_dir is already gone returns Ok,
\* sends no QMP command and no signal, and changes neither the filesystem
\* nor the process.
C8_DestroyIdempotent ==
    [][((op = "destroy" \/ op' = "destroy") /\ OpStep /\ ~dirExists)
          => /\ UNCHANGED <<fsVars, procVars>>
             /\ sent' = <<>>
             /\ op' = "none" => result' = Returned("destroy", "Ok")]_vars

\* C8 witness: a destroy has returned Ok whose remove_dir_all found no
\* directory: the handle had been destroyed before.
C8_Witness ==
    /\ Idle /\ result = Returned("destroy", "Ok")
    /\ backend = "Qemu" /\ vm.held /\ sent = <<>>
    /\ rmErr /\ ~dirExists

\* The function of section 4.4.6, on the pidfile, the process, work_dir and
\* the outcome and status of the QMP exchange.
SpecState(pidfile, alive, dir, qmp, status) ==
    IF pidfile \notin {"missing", "unparseable"} /\ alive
    THEN IF qmp # "ok" THEN "Running"
         ELSE IF status = "running" THEN "Running"
         ELSE IF status = "paused" \/ status = "suspended" THEN "Stopped"
         ELSE "Running"
    ELSE IF dir THEN "Stopped" ELSE "Destroyed"

\* C9: state returns exactly that function of what it finds.
C9_StateFunction ==
    [][State =>
          result'.val =
              SpecState(IF PidFile \notin files THEN "missing"
                        ELSE IF pidContent = "empty" THEN "unparseable"
                        ELSE "pid",
                        pidContent = QemuPid /\ proc # "none",
                        dirExists, qmpSeen', proc)]_vars

\* C9 witness: state has answered Running for a live guest whose QMP status
\* is none of running, paused, suspended.
C9_Witness ==
    /\ Idle /\ result = Returned("state", "Running")
    /\ qmpSeen = "ok" /\ proc = "guest-panicked"

C15_StartFailures ==
    [][/\ (StartSpawn /\ op' = "none")
            => /\ result' = Returned("start", "QemuSpawnFailed")
               /\ qmpSeen' = "none" /\ sent' = <<>>
       /\ (op = "start" /\ pc = "start_wait" /\ OpStep
                /\ result'.val # "cancelled_spawn")
            => IF launcher = "exit0"
               THEN op' = "start" /\ pc' = "start_qmp"
               ELSE /\ result' = Returned("start", "QemuSpawnFailed")
                    /\ qmpSeen' = "none" /\ sent' = <<>> /\ op' = "none"
       /\ (op = "start" /\ pc = "start_qmp" /\ OpStep
                /\ result'.val # "cancelled_qmp" /\ qmpSeen' # "ok")
            => result' = Returned("start",
                                  IF qmpSeen' = "connect_timeout"
                                  THEN "QmpConnectTimeout" ELSE "QmpProtocol")]_vars

\* C15 witness: start has failed with QmpConnectTimeout after its launcher
\* exited zero; the daemon runs.
C15_Witness ==
    /\ Idle /\ result = Returned("start", "QmpConnectTimeout")
    /\ qmpSeen = "connect_timeout" /\ proc \in RunStates /\ read_pid = QemuPid

\* What a VM in state v can step to when no other VM is on the host.
AloneNext(v) ==
    pair_prepare(v) \cup pair_spawn(v, v.proc # "none") \cup pair_start_return(v)
        \cup pair_stop(v) \cup pair_destroy(v) \cup pair_poweroff(v)

\* C11: operations on two handles of distinct names are independent: a step
\* of one VM leaves the other VM's work_dir, pidfile, sockets and process as
\* they are, and takes its own VM to a state and result it can reach with no
\* other VM on the host, so every interleaving is one of the sequential runs.
C11_Independent ==
    [][\A n \in VmNames :
          vms'[n] # vms[n]
              => /\ \A m \in VmNames \ {n} : vms'[m] = vms[m]
                 /\ vms'[n] \in AloneNext(vms[n])]_vars

\* The part of C11 that holds: no step of one VM changes the other VM.
C11_OtherUntouched ==
    [][\A n \in VmNames :
          vms'[n] # vms[n] => \A m \in VmNames \ {n} : vms'[m] = vms[m]]_vars

----------------------------------------------------------------------------
(* Properties of the helpers *)

CreateRan == call.fn = "create_overlay" /\ call.out.argv # <<>>

\* C18: the argv of `qemu-img create` is create -f qcow2 -F <fmt> -b <base>
\* <overlay>, in this order, with the format that qemu-img info reported;
\* -F is never left out; <size_gb>G follows iff size_gb is given.
C18_CreateArgv ==
    /\ (call.fn = "create_overlay" /\ call.info.status = "zero"
            /\ FormatStr(call.info.stdout) # Absent) => CreateRan
    /\ CreateRan =>
        LET argv == call.out.argv IN
        /\ Len(argv) = IF call.size_gb = <<>> THEN 8 ELSE 9
        /\ SubSeq(argv, 1, 4) = <<"create", "-f", "qcow2", "-F">>
        /\ FormatStr(call.info.stdout) # Absent
              => argv[5] = FormatStr(call.info.stdout)
        /\ SubSeq(argv, 6, 8) = <<"-b", call.base, call.overlay>>
        /\ call.size_gb # <<>> => argv[9] = ToString(call.size_gb[1]) \o "G"

\* C18 witness: for a raw base and no size, create ran with exactly
\* create -f qcow2 -F raw -b <base> <overlay>.
C18_Witness ==
    /\ call.fn = "create_overlay" /\ call.out.res = "Ok"
    /\ call.info.stdout = "{format:raw}" /\ call.size_gb = <<>>
    /\ call.out.argv = <<"create", "-f", "qcow2", "-F", "raw", "-b",
                         "/img/base.raw", "/data/vm1/overlay.qcow2">>

\* C19: create_overlay fails with FormatDetectionFailed and runs no create
\* whenever qemu-img info exits non-zero or prints what gives no format
\* (not JSON, or JSON without a readable .format); it fails with
\* OverlayCreationFailed exactly when create cannot run or exits non-zero.
C19_DetectionFailures ==
    call.fn = "create_overlay" =>
        /\ (\/ call.info.status # "zero"
            \/ ~IsJson(call.info.stdout)
            \/ FormatStr(call.info.stdout) = Absent)
              => (call.out.res = "ImageFormatDetectionFailed" /\ ~CreateRan)
        /\ call.out.res = "OverlayCreationFailed"
              <=> (CreateRan /\ call.create # "zero")


IsoProduced == call.fn = "create_nocloud_iso_raw" /\ call.out.res = "Ok"

\* The 32 bytes found at offset 16 * 2048 + 40 of the image produced.
VolIdField == call.out.img[16 * 2048 + 40]

C17_EveryFailureIsIsoFailed ==
    (call.fn = "create_nocloud_iso_raw" /\ call.out.res # "Ok")
        => call.out.res = "CloudInitIsoFailed"


Prepared == call.fn = "prepare" /\ call.out.res = "Ok"

\* C12: after prepare succeeds, work_dir = <data_dir>/<name> exists, the
\* handle's overlay_path is <work_dir>/overlay.qcow2, and that file is a
\* QCOW2 backed by spec.image_path; no handle is returned when the overlay
\* could not be made.
C12_PrepareMakesOverlay ==
    call.fn = "prepare" =>
        LET dir == "/data/" \o call.spec.name
            out == call.out IN
        /\ Prepared =>
            /\ out.handle # <<>>
            /\ dir \in out.dirs
            /\ out.handle[1].work_dir = dir
            /\ out.handle[1].overlay_path = <<dir \o "/overlay.qcow2">>
            /\ out.overlay # <<>>
            /\ out.overlay[1].path = dir \o "/overlay.qcow2"
            /\ out.overlay[1].format = "qcow2"
            /\ out.overlay[1].backing_file = call.spec.image_path
        /\ (call.env.info.status # "zero" \/ call.env.create # "zero")
              => (out.handle = <<>> /\ out.res # "Ok")

\* C12 witness: a prepare without cloud-init has succeeded for vm2 on a
\* qcow2 base.
C12_Witness ==
    /\ Prepared
    /\ call.spec.name = "vm2" /\ call.spec.image_path = "/img/base.qcow2"
    /\ call.spec.cloud_init = <<>>
    /\ call.out.overlay[1].backing_file = "/img/base.qcow2"

\* C13: a seed ISO is written and seed_iso_path is set iff spec.cloud_init
\* is set; its meta-data is the caller's meta_data when given, else
\* instance-id and local-hostname, each defaulting to spec.name.
C13_SeedMetaData ==
    Prepared =>
        LET ci == call.spec.cloud_init
            name == call.spec.name
            out == call.out IN
        /\ out.seed # <<>> <=> ci # <<>>
        /\ out.handle[1].seed_iso_path # <<>> <=> ci # <<>>
        /\ ci # <<>> =>
            out.seed[1].meta_data =
                IF ci[1].meta_data # <<>> THEN ci[1].meta_data[1]
                ELSE "instance-id: "
                        \o (IF ci[1].instance_id = <<>> THEN name
                            ELSE ci[1].instance_id[1])
                        \o "\nlocal-hostname: "
                        \o (IF ci[1].hostname = <<>> THEN name
                            ELSE ci[1].hostname[1])
                        \o "\n"

Spawned == call.fn = "start" /\ call.out.res = "spawn"

\* C14: the argv start gives the QEMU binary is the sequence of section 6.1:
\* the fixed arguments with the handle's qmp_socket, console_socket and
\* overlay, the two seed-drive arguments iff seed_iso_path is set, then
\* -daemonize and -pidfile <work_dir>/qemu.pid last.
C14_StartArgv ==
    Spawned =>
        LET h == call.vm
            argv == call.out.argv
            n == Len(argv) IN
        /\ n = IF h.seed_iso_path = <<>> THEN 21 ELSE 25
        /\ SubSeq(argv, 1, 6) = <<"-enable-kvm", "-machine", "q35,accel=kvm",
                                  "-cpu", "host", "-nodefaults">>
        /\ SubSeq(argv, 7, 8) =
              <<"-qmp", "unix:" \o h.qmp_socket[1] \o ",server,nowait">>
        /\ SubSeq(argv, 9, 10) =
              <<"-serial", "unix:" \o h.console_socket[1] \o ",server,nowait">>
        /\ SubSeq(argv, 11, 14) =
              <<"-vnc", "127.0.0.1:0", "-device", "virtio-rng-pci">>
        /\ SubSeq(argv, 15, 18) =
              <<"-drive",
                "file=" \o h.overlay_path[1]
                    \o ",format=qcow2,if=none,id=drive0,discard=unmap",
                "-device", "virtio-blk-pci,drive=drive0">>
        /\ h.seed_iso_path # <<>> =>
              SubSeq(argv, 19, 22) =
                  <<"-drive",
                    "file=" \o h.seed_iso_path[1]
                        \o ",format=raw,if=none,id=seed,readonly=on",
                    "-device", "virtio-blk-pci,drive=seed">>
        /\ SubSeq(argv, n - 2, n) =
              <<"-daemonize", "-pidfile", h.work_dir \o "/qemu.pid">>

\* C14 witness: start has built the argv for a handle with a seed ISO, and
\* -pidfile <work_dir>/qemu.pid ends it.
C14_Witness ==
    /\ Spawned /\ call.vm.seed_iso_path = <<"/data/vm1/seed.iso">>
    /\ Len(call.out.argv) = 25
    /\ call.out.argv[25] = "/data/vm1/qemu.pid"


\* A line the ARP step accepts: REACHABLE or STALE, and a first token with a
\* dot that does not start with 127.
Accepted(line) ==
    /\ Contains(line, "REACHABLE") \/ Contains(line, "STALE")
    /\ first_token(line) # <<>>
    /\ Contains(first_token(line)[1], ".")
    /\ ~StartsWith(first_token(line)[1], "127.")

\* The ARP step returned the first token of the first accepted line, in
\* output order, and nothing when no line is accepted.
ArpFirstAccepted ==
    LET ls == lines(call.text)
        accepted == {i \in 1..Len(ls) : Accepted(ls[i])} IN
    call.out = IF accepted = {} THEN <<>> ELSE first_token(ls[Min(accepted)])

ArpExample ==
    "192.168.122.10 dev virbr0 lladdr 52:54:00:ab:cd:ef REACHABLE\n"
        \o "127.0.0.1 dev lo REACHABLE\n"

\* C20 as claimed: the ARP step returns the first IPv4-looking token not
\* starting with 127. among the REACHABLE or STALE lines, 192.168.122.10 for
\* the example output, and never a loopback or an IPv6 address.
C20_ArpNeverIpv6 ==
    call.fn = "guest_ip" =>
        /\ ArpFirstAccepted
        /\ call.text = ArpExample => call.out = <<"192.168.122.10">>
        /\ call.out # <<>> =>
            /\ ~StartsWith(call.out[1], "127.")
            /\ ~Contains(call.out[1], ":")

\* C20 as amended: the same scan, where IPv4-looking means that the first
\* token of the line contains a dot; what is returned never starts with
\* 127. and always contains a dot (an IPv6 address written with a dotted
\* IPv4 part is not excluded).
C20_ArpFirstDotted ==
    call.fn = "guest_ip" =>
        /\ ArpFirstAccepted
        /\ call.text = ArpExample => call.out = <<"192.168.122.10">>
        /\ call.out # <<>> =>
            /\ ~StartsWith(call.out[1], "127.")
            /\ Contains(call.out[1], ".")

\* C20 witness: for a loopback line followed by a STALE neighbour the step
\* has skipped the loopback entry and returned the neighbour.
C20_Witness ==
    /\ call.fn = "guest_ip"
    /\ call.text = "127.0.0.1 dev lo REACHABLE\n"
                       \o "10.0.0.7 dev br0 lladdr 52:54:00:00:00:07 STALE\n"
    /\ call.out = <<"10.0.0.7">>


\* The lease file holds an address: it can be read and its last line has
\* at least three fields.
LeaseHasIp ==
    call.leases # <<>> /\ lease_ip(call.leases[1]) # <<>>

\* C21: guest_ip fails with IpDiscoveryTimeout only when no method found an
\* address: with a default bridge and no address from the ARP step, also
\* when `ip` could not be run, the lease file is read and the third field
\* of its last line returned; without a default bridge the file is not read.
C21_LeaseFallback ==
    call.fn = "guest_ip_methods" =>
        LET arp == IF call.ip_run = "ran" THEN arp_ip(call.text) ELSE <<>> IN
        /\ (call.default_bridge # <<>> /\ arp = <<>>)
              => /\ LeasesPath \in call.out.read
                 /\ LeaseHasIp => (call.out.res = "Ok"
                                   /\ call.out.ip = lease_ip(call.leases[1]))
        /\ call.default_bridge = <<>> => call.out.read = {}
        /\ call.out.res = "IpDiscoveryTimeout"
              => (arp = <<>> /\ ~(call.default_bridge # <<>> /\ LeaseHasIp))

\* What holds of guest_ip: the same when `ip neigh show` could be run.
C21_LeaseFallbackAfterArp ==
    (call.fn = "guest_ip_methods" /\ call.ip_run = "ran") =>
        LET arp == arp_ip(call.text) IN
        /\ (call.default_bridge # <<>> /\ arp = <<>>)
              => /\ LeasesPath \in call.out.read
                 /\ LeaseHasIp => (call.out.res = "Ok"
                                   /\ call.out.ip = lease_ip(call.leases[1]))
        /\ call.default_bridge = <<>> => call.out.read = {}
        /\ call.out.res = "IpDiscoveryTimeout"
              => (arp = <<>> /\ ~(call.default_bridge # <<>> /\ LeaseHasIp))


\* C22: on the Noop backend every operation succeeds after any sequence of
\* operations: prepare returns a handle whose id starts with "noop-", state
\* returns Prepared, guest_ip 127.0.0.1, console_endpoint None, and start,
\* stop, suspend, resume and destroy return Ok.
C22_NoopAllSucceed ==
    (backend = "Noop" /\ result # NoResult) =>
        CASE result.op = "prepare" -> StartsWith(result.val, "noop-")
          [] result.op = "state" -> result.val = "Prepared"
          [] result.op = "guest_ip" -> result.val = "127.0.0.1"
          [] result.op = "console_endpoint" -> result.val = "None"
          [] OTHER -> result.val = "Ok"

\* What holds on the Noop backend: the same for every operation but
\* prepare, on a handle prepare returned.
C22_NoopHandleOpsSucceed ==
    (backend = "Noop" /\ result # NoResult /\ result.op # "prepare") =>
        CASE result.op = "state" -> result.val = "Prepared"
          [] result.op = "guest_ip" -> result.val = "127.0.0.1"
          [] result.op = "console_endpoint" -> result.val = "None"
          [] OTHER -> result.val = "Ok"


\* The client has sent a command other than qmp_capabilities.
CommandSent ==
    \E i \in 1..Len(call.wire) : call.wire[i] # Execute("qmp_capabilities")

\* C23: no command is sent before the handshake is complete: when a command
\* has been sent, the greeting was read, then qmp_capabilities was sent as
\* the first line, then the reply {"return":{}} was read; a session whose
\* handshake failed has sent no command.
C23_HandshakeFirst ==
    call.fn = "qmp" =>
        /\ CommandSent
              => /\ call.seen = <<"greeting", "capabilities">>
                 /\ call.wire[1] = Execute("qmp_capabilities")
                 /\ StartsWith(call.stream0, GoodHandshake)
        /\ call.phase \in {"ready", "in_flight", "closed"}
              => StartsWith(call.stream0, GoodHandshake)
        /\ call.wire # <<>> => HasKey(read_line(call.stream0)[1], "QMP")
        /\ call.phase = "failed" => ~CommandSent
        /\ \A i \in 2..Len(call.wire) :
              call.wire[i] \in {Execute(c) : c \in QmpCommands}

\* C23 witness: after a complete handshake query-status has been sent and
\* answered.
C23_Witness ==
    /\ call.fn = "qmp" /\ call.phase = "ready"
    /\ call.wire = <<Execute("qmp_capabilities"), Execute("query-status")>>
    /\ call.results = <<[cmd |-> "query-status", res |-> "{\"status\":\"running\"}"]>>


\* The server stream with its event lines removed.
RECURSIVE strip_events(_)
strip_events(stream) ==
    LET line == read_line(stream) IN
    IF line = <<>> THEN stream
    ELSE IF HasKey(line[1], "event") THEN strip_events(after_line(stream))
    ELSE line[1] \o "\n" \o strip_events(after_line(stream))

\* The session of the same commands on the stream without its event lines,
\* run to its end.
Stripped == qmp_run(Connected(strip_events(call.stream0), call.cmds0))

\* C24: event lines never change command results: the commands of a session
\* complete with the results they have on the stream with the event lines
\* removed, and the i-th result is the result of the i-th command issued.
C24_EventsDiscarded ==
    call.fn = "qmp" =>
        /\ \A i \in 1..Len(call.results) : call.results[i].cmd = call.cmds0[i]
        /\ Len(call.results) + Len(call.todo) = Len(call.cmds0)
        /\ Over(call) =>
              LET plain == Stripped IN
              /\ call.results = plain.results
              /\ call.phase = plain.phase
              /\ call.wire = plain.wire

\* C24 witness: on a stream with an event line before the reply,
\* query-status has completed with the reply, and the stop issued after it
\* has failed at the end of the stream.
C24_Witness ==
    /\ call.fn = "qmp" /\ call.phase = "closed"
    /\ call.stream0 = GoodHandshake \o EventLine \o "\n" \o ReturnRunning \o "\n"
    /\ call.results = <<[cmd |-> "query-status", res |-> "{\"status\":\"running\"}"],
                        [cmd |-> "stop", res |-> "QmpProtocol"]>>


\* What C25 says of one step of suspend (cmd stop) or resume (cmd cont).
OneQmpCommand(name, cmd) ==
    /\ result'.op = name
    /\ result'.val \in {"Ok", "QmpConnectTimeout", "QmpProtocol"}
    /\ sent' \in {<<>>, <<cmd>>}
    /\ result'.val = "Ok" <=> (sent' = <<cmd>> /\ qmpSeen' = "ok")
    /\ result'.val = "QmpConnectTimeout" <=> qmpSeen' = "connect_timeout"
    /\ UNCHANGED <<fsVars, dying>>

\* C25: suspend connects to the QMP socket and issues exactly `stop`, resume
\* exactly `cont`; each returns Ok only when the command was acknowledged,
\* fails only with QmpConnectTimeout or QmpProtocol, sends no signal and
\* changes no file of work_dir.
C25_SuspendResume ==
    [][/\ Suspend => OneQmpCommand("suspend", "stop")
       /\ Resume => OneQmpCommand("resume", "cont")]_vars

\* C25 witness: suspend has returned Ok after `stop` was acknowledged; the
\* guest is paused and its pidfile and sockets are in place.
C25_Witness ==
    /\ Idle /\ result = Returned("suspend", "Ok")
    /\ sent = <<"stop">> /\ proc = "paused"
    /\ {QmpSock, PidFile} \subseteq files


\* For a registry other than ghcr.io the credentials are the same whatever
\* GITHUB_TOKEN is.
TokenNeverLeaves ==
    call.registry # "ghcr.io" =>
        /\ call.out = Anonymous
        /\ \A e \in TokenEnvs : resolve_auth(call.registry, e) = call.out

\* C26: resolve_auth returns Basic("_token", value of GITHUB_TOKEN) exactly
\* when the registry is ghcr.io and GITHUB_TOKEN is set, else Anonymous; the
\* token has no influence on the credentials for another registry.
C26_TokenOnlyForGhcr ==
    call.fn = "resolve_auth" =>
        /\ IF call.registry = "ghcr.io" /\ call.token_env # <<>>
           THEN call.out = Basic("_token", call.token_env[1].value)
           ELSE call.out = Anonymous
        /\ TokenNeverLeaves

\* C26 as amended: Basic exactly when the registry is ghcr.io and
\* GITHUB_TOKEN is set to valid Unicode (std::env::var fails on other bytes,
\* and the variable then counts as not set); else Anonymous; the token has
\* no influence on the credentials for another registry.
C26_UnicodeTokenOnlyForGhcr ==
    call.fn = "resolve_auth" =>
        /\ IF /\ call.registry = "ghcr.io"
              /\ call.token_env # <<>> /\ call.token_env[1].unicode
           THEN call.out = Basic("_token", call.token_env[1].value)
           ELSE call.out = Anonymous
        /\ TokenNeverLeaves

\* C26 witness: for ghcr.io with the token set, the credentials are the
\* user _token with the token as password.
C26_Witness ==
    /\ call.fn = "resolve_auth"
    /\ call.registry = "ghcr.io"
    /\ call.token_env = <<[unicode |-> TRUE, value |-> "ghp_s3cret"]>>
    /\ call.out = Basic("_token", "ghp_s3cret")


Count(seq, x) == Cardinality({i \in 1..Len(seq) : seq[i] = x})

\* The step sends the signal: it is appended to what the call has sent.
Sends(sig) == sent' = Append(sent, sig)

\* C27: within one stop call SIGTERM is sent only after the powerdown
\* attempt and after the poll reached the timeout with the pid alive; SIGKILL
\* only after SIGTERM was sent in the same call, the 3 s wait is over and
\* the pid is still alive; never SIGKILL without a SIGTERM before it.
C27_EscalationOrder ==
    [][/\ Sends("SIGTERM")
            => /\ op \in {"stop", "destroy"} /\ pc = "stop_term"
               /\ elapsed >= timeout
               /\ pid_alive(read_pid)
               /\ Count(sent, "SIGTERM") = 0 /\ Count(sent, "SIGKILL") = 0
               /\ pc' = "stop_kill"
       /\ Sends("SIGKILL")
            => /\ op \in {"stop", "destroy"} /\ pc = "stop_kill"
               /\ sent # <<>> /\ sent[Len(sent)] = "SIGTERM"
               /\ pid_alive(read_pid)
       /\ Count(sent', "SIGKILL") <= Count(sent', "SIGTERM")
       /\ pc' = "stop_term" => pc \in {"stop_poll", "stop_term"}
       /\ pc' = "stop_kill" => pc \in {"stop_term", "stop_kill"}]_vars

\* C27 witness: a stop has returned after powerdown, SIGTERM and SIGKILL,
\* in this order.
C27_Witness ==
    /\ Idle /\ result = Returned("stop", "Ok")
    /\ sent = <<"system_powerdown", "SIGTERM", "SIGKILL">>

\* C28: a poll that finds the process not alive makes stop return Ok at
\* once, with neither SIGTERM nor SIGKILL sent; the SIGTERM fallback is
\* entered from a poll only, also when the timeout is 0.
C28_PollFindsDead ==
    [][/\ (op = "stop" /\ pc = "stop_poll" /\ OpStep
              /\ read_pid # None /\ ~pid_alive(read_pid))
            => /\ op' = "none" /\ result' = Returned("stop", "Ok")
               /\ Count(sent', "SIGTERM") = 0 /\ Count(sent', "SIGKILL") = 0
       /\ (op' = "stop" /\ pc' = "stop_term" /\ pc # "stop_term")
            => (pc = "stop_poll" /\ pid_alive(read_pid) /\ elapsed >= timeout)
       /\ (Stop /\ timeout' = 0) => pc' = "stop_poll"]_vars

\* C28 witness: a stop with timeout 0 is at its one poll, and the process
\* whose pid the pidfile has is gone.
C28_Witness ==
    /\ op = "stop" /\ pc = "stop_poll" /\ timeout = 0 /\ elapsed = 0
    /\ read_pid # None /\ ~pid_alive(read_pid)

\* C30: destroy runs the whole of stop with the 5 s timeout, then the QMP
\* quit (only with qmp.sock in place, its failure ignored), then removes
\* work_dir; work_dir is not removed before stop has finished.
C30_DestroyOrder ==
    [][/\ (op # "destroy" /\ op' = "destroy")
            => (pc' = "stop_poll" /\ timeout' = DestroyTimeoutMs /\ elapsed' = 0)
       /\ (op' = "destroy" /\ pc' = "destroy_quit" /\ pc # "destroy_quit")
            => (op = "destroy" /\ pc \in {"stop_poll", "stop_term", "stop_kill"})
       /\ (op = "destroy" /\ pc = "destroy_quit" /\ OpStep)
            => /\ pc' = "destroy_rm" /\ op' = "destroy"
               /\ UNCHANGED fsVars
               /\ Count(sent', "quit") > Count(sent, "quit")
                     => (QmpSockExists /\ qmpSeen' = "ok")
               /\ ~QmpSockExists => UNCHANGED <<sent, qmpSeen>>
       /\ (op' = "destroy" /\ pc' = "destroy_rm" /\ pc # "destroy_rm")
            => (op = "destroy" /\ pc = "destroy_quit")
       /\ (backend = "Qemu" /\ dirExists /\ ~dirExists')
            => (op = "destroy" /\ pc = "destroy_rm" /\ op' = "none")
       /\ Count(sent', "quit") > Count(sent, "quit")
            => (op = "destroy" /\ pc = "destroy_quit")]_vars

\* C30 witness: destroy has returned after powerdown, SIGTERM, SIGKILL and
\* an acknowledged quit, and work_dir is gone.
C30_Witness ==
    /\ Idle /\ result = Returned("destroy", "Ok")
    /\ sent = <<"system_powerdown", "SIGTERM", "SIGKILL", "quit">>
    /\ ~dirExists


ConnectOver == call.phase \in {"connected", "QmpConnectTimeout"}

\* C31: connect-with-wait tries every 100 ms until it succeeds or the
\* caller's timeout has elapsed: it succeeds when the socket becomes
\* connectable before the timeout, fails with QmpConnectTimeout when it does
\* not become connectable by then, and always ends; the timeout is 10 s in
\* start, 5 s in suspend and resume, 2 s in stop, destroy's quit and state.
C31_ConnectWithWait ==
    /\ [](call.fn = "connect" =>
            /\ call.elapsed = RetryMs * (call.attempts
                                           - (IF call.phase = "attempt" THEN 0 ELSE 1))
            /\ call.elapsed <= call.timeout
            /\ call.phase = "connected" => Connectable(call)
            /\ ConnectOver =>
                  /\ (call.ready # <<>> /\ call.ready[1] < call.timeout)
                        => call.phase = "connected"
                  /\ (call.ready = <<>> \/ call.ready[1] > call.timeout)
                        => call.phase = "QmpConnectTimeout"
            /\ call.timeout = CASE call.caller = "start" -> 10000
                                [] call.caller \in {"suspend", "resume"} -> 5000
                                [] OTHER -> 2000)
    /\ <>(call.fn = "connect" /\ ConnectOver)

\* C31 witness: start's connect has succeeded at its last attempt, on a
\* socket that became connectable 50 ms before the timeout.
C31_Witness ==
    /\ call.fn = "connect" /\ call.caller = "start" /\ call.phase = "connected"
    /\ call.ready = <<9950>> /\ call.elapsed = 10000 /\ call.attempts = 101


\* The external build got as far as its tools.
ExternalBuild ==
    /\ call.fn = "create_nocloud_iso_raw" /\ ~call.pure_iso
    /\ call.env.fail = "none"

MkisofsTried == Len(call.out.tried) = 2 /\ call.out.tried[2][1] = "mkisofs"

\* Every command line has volume id cidata, Joliet, Rock Ridge and the two
\* files, and genisoimage is the first.
ToolLines ==
    /\ call.out.tried # <<>> /\ call.out.tried[1][1] = "genisoimage"
    /\ \A i \in 1..Len(call.out.tried) :
          LET argv == call.out.tried[i] IN
          /\ argv[1] \in {"genisoimage", "mkisofs"}
          /\ OptionValue(argv, "-volid") = "cidata"
          /\ OptionValue(argv, "-output") = OutIso
          /\ Has(argv, "-joliet") /\ Has(argv, "-rock")
          /\ SubSeq(argv, Len(argv) - 1, Len(argv))
               = <<Join(SeedDir, "user-data"), Join(SeedDir, "meta-data")>>

\* C32: genisoimage is tried first and mkisofs is run whenever genisoimage
\* did not produce the image (could not be launched or exited non-zero); the
\* producer fails with the ISO error only when the tool finally used exits
\* non-zero; both tools get volume id cidata, Joliet, Rock Ridge and the two
\* files.
C32_FallbackWheneverNoImage ==
    ExternalBuild =>
        /\ ToolLines
        /\ MkisofsTried <=> call.env.geniso # "zero"
        /\ call.out.res = "CloudInitIsoFailed"
              => (IF MkisofsTried THEN call.env.mkisofs ELSE call.env.geniso) = "nonzero"

\* C32 as amended: mkisofs is run exactly when genisoimage could not be
\* launched; a genisoimage that exits non-zero fails the producer with the
\* ISO error and mkisofs is not tried; the producer fails with the ISO error
\* exactly when the tool that ran exits non-zero.
C32_FallbackWhenNotLaunched ==
    ExternalBuild =>
        /\ ToolLines
        /\ MkisofsTried <=> call.env.geniso = "spawn_failed"
        /\ call.out.res = "CloudInitIsoFailed"
              <=> (IF MkisofsTried THEN call.env.mkisofs ELSE call.env.geniso) = "nonzero"
        /\ call.env.geniso = "nonzero"
              => (call.out.res = "CloudInitIsoFailed" /\ ~MkisofsTried)

\* C32 witness: genisoimage could not be launched and mkisofs, run with the
\* same arguments, has produced the image.
C32_Witness ==
    /\ ExternalBuild
    /\ call.env.geniso = "spawn_failed" /\ call.env.mkisofs = "zero"
    /\ call.out.res = "Ok" /\ call.out.written
    /\ call.out.tried = <<tool_argv("genisoimage"), tool_argv("mkisofs")>>


\* start returns a QMP error: its launcher had exited 0.
StartQmpFails ==
    /\ op = "start" /\ pc = "start_qmp" /\ op' = "none"
    /\ result'.val \in {"QmpConnectTimeout", "QmpProtocol"}

\* The last call was a start that returned a QMP error.
AfterFailedStart ==
    Idle /\ result.op = "start" /\ result.val \in {"QmpConnectTimeout", "QmpProtocol"}

\* start does nothing to the daemon: no signal and no command is sent, the
\* process, its pidfile and its sockets are as they were.
StartLeavesDaemon ==
    StartQmpFails => (UNCHANGED <<fsVars, procVars>> /\ sent' = sent)

\* C33: a start that fails at the QMP connect or query-status after its
\* launcher exited 0 returns the error and leaves the daemon as it is, with
\* pidfile and sockets in work_dir; a state called next, with that daemon
\* still running, reports Running, whatever its own QMP exchange gives.
C33_FailedStartLeavesDaemon ==
    [][/\ StartLeavesDaemon
       /\ (AfterFailedStart /\ State /\ proc = "running" /\ read_pid = QemuPid)
             => result' = Returned("state", "Running")]_vars

\* C33 witness: start has failed with QmpProtocol, and the daemon runs with
\* its pidfile and sockets in work_dir.
C33_Witness ==
    /\ Idle /\ result = Returned("start", "QmpProtocol")
    /\ proc = "running" /\ dying = "no"
    /\ {PidFile, QmpSock, ConsoleSock} \subseteq files /\ pidContent = QemuPid


\* suspend, or resume, is the last operation that returned, and returned Ok.
AfterSuspend == Idle /\ result = Returned("suspend", "Ok")
AfterResume == Idle /\ result = Returned("resume", "Ok")

\* The daemon that qemu.pid names is alive.
DaemonAlive == read_pid # None /\ pid_alive(read_pid)

\* C34 as stated: a state called after a successful suspend returns Stopped,
\* a state called after a successful resume returns Running, and a resume
\* that succeeds after a successful suspend leaves the guest in the run state
\* it had before the suspend.
C34_SuspendResumeRoundTrip ==
    [][/\ (AfterSuspend /\ State) => result'.val = "Stopped"
       /\ (AfterResume /\ State) => result'.val = "Running"
       /\ (Suspend /\ result'.val = "Ok") => QmpCont(proc') = proc]_vars

\* C34, amended: a successful suspend of a running guest leaves it paused;
\* while the guest is paused and the daemon alive, state returns Stopped
\* when its own query-status is answered and Running when its QMP exchange
\* fails; a successful resume of a paused guest leaves it running, and state
\* then returns Running while it runs. A guest that was running before the
\* suspend is running after the resume.
C34_SuspendResumeOfRunning ==
    [][/\ (AfterSuspend /\ State /\ DaemonAlive /\ proc = "paused") =>
             result'.val = IF qmpSeen' = "ok" THEN "Stopped" ELSE "Running"
       /\ (AfterResume /\ State /\ DaemonAlive /\ proc = "running") =>
             result'.val = "Running"
       /\ (Suspend /\ result'.val = "Ok" /\ proc = "running") =>
             proc' = "paused" /\ QmpCont(proc') = proc
       /\ (Resume /\ result'.val = "Ok" /\ proc = "paused") => proc' = "running"]_vars

\* C34 witness: state has just returned Stopped for a paused guest whose
\* daemon is alive, its query-status answered.
C34_Witness ==
    /\ Idle /\ result = Returned("state", "Stopped")
    /\ proc = "paused" /\ DaemonAlive /\ qmpSeen = "ok"
    /\ sent = <<"query-status">>


\* prepare is the last operation that returned, it returned a handle, and
\* no QEMU process of the VM has been started.
AfterPrepare == Idle /\ result = Returned("prepare", "Ok") /\ proc = "none"

\* C35: QemuBackend::state never returns Prepared; called after a successful
\* prepare and before any start it returns Stopped, the value it also
\* returns after a stop for a VM whose process is gone and whose work_dir is
\* still there.
C35_NeverPrepared ==
    [][State =>
        /\ result'.val \in {"Running", "Stopped", "Destroyed"}
        /\ AfterPrepare => result'.val = "Stopped"
        /\ (result.op = "stop" /\ ~DaemonAlive /\ dirExists) =>
               result'.val = "Stopped"]_vars

\* C35 witness: state has returned Stopped for a VM that was prepared and
\* never started: no pidfile, no socket, no process.
C35_Witness ==
    /\ Idle /\ result = Returned("state", "Stopped")
    /\ proc = "none" /\ launcher = "none"
    /\ files \cap {PidFile, QmpSock, ConsoleSock} = {}


\* A prepare returns OverlayFailed or IsoWriteFailed.
PrepareFails ==
    Prepare /\ result'.val \in {"OverlayFailed", "IsoWriteFailed"}

\* C36: a prepare that fails at create_overlay or at the seed ISO returns the
\* error and no handle and removes nothing: work_dir exists afterwards with
\* every file it had, and after an ISO failure with overlay.qcow2; a caller
\* that held no handle holds none.
C36_NoRollback ==
    [][PrepareFails =>
        /\ dirExists'
        /\ files \subseteq files'
        /\ result'.val = "IsoWriteFailed" => Overlay \in files'
        /\ vm' = vm
        /\ UNCHANGED <<pidContent, procVars>>]_vars

\* C36 witness: the first prepare of a VM failed at the seed ISO; work_dir
\* holds overlay.qcow2 and no handle exists.
C36_Witness ==
    /\ Idle /\ result = Returned("prepare", "IsoWriteFailed")
    /\ ~vm.held /\ dirExists /\ files = {Overlay}


\* The handle that a prepare step has just returned, in a set.
NewHandles == call'.held \ call.held

RawFails ==
    /\ DownloadStream /\ call.pc = "raw"
    /\ call'.last \in {"ImageDownloadFailed", "Io"}

\* C38: with a file at destination, download returns Ok, sends no request
\* and leaves the file as it is, whatever it holds; a download_raw that fails
\* in its stream leaves at destination what it had written.
C38_SkipsOverAnyFile ==
    [][/\ (Download /\ call.dest # <<>>) =>
             /\ call'.last = "Ok" /\ call'.pc = "idle"
             /\ call'.requests = call.requests
             /\ call'.dest = call.dest
       /\ RawFails =>
             /\ call'.dest = call.dest
             /\ call'.dest # <<>>
             /\ call'.dest[1] < ImageChunks]_vars

\* C38 witness: one request was sent, its stream failed after the first
\* chunk, and a later download has returned Ok over the one-chunk file.
C38_Witness ==
    /\ Downloading("idle") /\ call.last = "Ok"
    /\ call.requests = 1 /\ call.dest = <<1>> /\ call.tmp = <<>>


StepSucceeded(o) == o \in {"exit0", "uploaded", "nothing"}

\* The steps ran in list order from 1: the session operations made are those
\* of steps 1, 2, ... in turn, one outcome per step begun.
InListOrder ==
    /\ \A k \in 1..Len(call.done) : call.done[k] \in StepOutcomes(call.steps[k])
    /\ \A j, k \in 1..Len(call.acts) : j < k => call.acts[j].step <= call.acts[k].step
    /\ \A k \in 1..Len(call.acts) : call.acts[k].step \in 1..Len(call.done)
    /\ \A k \in 1..Len(call.done) : k < Len(call.done) => StepSucceeded(call.done[k])

\* What run_provisions returned, against what the steps did.
FirstFailureStops ==
    /\ call.result.res = "ProvisionFailed" =>
          /\ call.result.step = Len(call.done)
          /\ ~StepSucceeded(call.done[call.result.step])
    /\ call.result.res = "Ok" =>
          /\ Len(call.done) = Len(call.steps)
          /\ \A k \in 1..Len(call.done) : StepSucceeded(call.done[k])
    /\ call.pc = "done" => call.result.res \in {"Ok", "ProvisionFailed"}

\* The step whose command exited non-zero has its entry in provision.log.
NonZeroLogged ==
    \A k \in 1..Len(call.done) :
        call.done[k] = "exit1" => \E j \in 1..Len(call.log) : call.log[j] = k

\* C39 as stated: the steps run in list order, numbered from 1; the first
\* failing step ends the run with ProvisionFailed of its number, Ok needs
\* every step to have succeeded, and a step whose command exited non-zero
\* is in provision.log by the time the error is returned.
C39_OrderedStopLogged ==
    call.fn = "run_provisions" =>
        /\ InListOrder
        /\ FirstFailureStops
        /\ NonZeroLogged

\* C39, amended: as stated, the log entry being there when a log_dir was
\* given and provision.log could be opened; without one nothing is logged.
C39_OrderedStopLoggedIfLogDir ==
    call.fn = "run_provisions" =>
        /\ InListOrder
        /\ FirstFailureStops
        /\ call.log_dir = "ok" => NonZeroLogged
        /\ call.log_dir # "ok" => call.log = <<>>

\* C39 witness: of two script steps the first succeeded and the second
\* exited non-zero; ProvisionFailed carries step 2 and both are logged.
C39_Witness ==
    /\ Provisions("done") /\ call.steps = <<"script", "script">>
    /\ call.done = <<"exit0", "exit1">>
    /\ call.result = ProvisionFailed(2)
    /\ call.log = <<1, 2>>

====
